---- MODULE Spec2Model ----
(***************************************************************************)
(* A model of src/jupyter-ext/jupyter.py: the docutils translators that    *)
(* turn a document tree into the cells of a Jupyter notebook.              *)
(*                                                                         *)
(* Text is a sequence of one-character strings.  A programming-language    *)
(* name inside a text is one element of the sequence (its letters are      *)
(* never inspected by the code once the name has been stripped and         *)
(* translated).                                                            *)
(***************************************************************************)
EXTENDS Integers, Sequences, FiniteSets, TLC

VARIABLES
    pure,                  \* a call of a static helper: its argument and result
    conversion_mode,       \* JupyterWriter.conversion_mode: "code" or "all"
    translator,            \* LanguageTranslator.translator (the dict)
    jupyter_kernels,       \* config: the languages that have a kernel entry, or None
    jupyter_headers,       \* config: language -> header cells, or None
    jupyter_write_metadata,\* config
    lang,                  \* self.lang
    nodelang,              \* self.nodelang
    cells,                 \* self.output["cells"]
    kernelspec,            \* self.output.metadata.kernelspec
    in_code_block,         \* self.in_code_block
    output_cell_type,      \* self.output_cell_type
    code_lines,            \* self.code_lines
    markdown_lines,        \* self.markdown_lines
    indents,               \* self.indents
    bullets,               \* self.bullets
    list_item_starts,      \* self.list_item_starts
    list_level,            \* self.list_level
    section_level,         \* self.section_level
    in_topic,              \* self.in_topic
    in_reference,          \* self.in_reference
    reference_text_start,  \* self.reference_text_start
    warnings,              \* the calls of self.warn / self.error, in order
    stack,                 \* the nodes walkabout has entered and not yet left
    status,                \* "walking", "done" (walkabout returned) or "raised"
    visited,               \* how many nodes walkabout has entered
    node_count,            \* how many nodes the document has at most
    last                   \* the handler that ran last, with its node

travVars == <<conversion_mode, translator, jupyter_kernels, jupyter_headers,
              jupyter_write_metadata, lang, nodelang, cells, kernelspec,
              in_code_block, output_cell_type, code_lines, markdown_lines,
              indents, bullets, list_item_starts, list_level, section_level,
              in_topic, in_reference, reference_text_start, warnings, stack,
              status, visited, node_count, last>>

vars == <<pure, travVars>>

-----------------------------------------------------------------------------
(* Bounds of the model.                                                    *)

\* the longest text given to strip_blank_lines_in_end_of_block on its own
MaxLen == 5
\* the longest class list given to GetGeneratorFromClasses on its own
MaxTags == 3

-----------------------------------------------------------------------------
(* Characters and Python's string operations.                              *)

NL == "\n"
SP == " "
\* str.strip() removes these from both ends
Whitespace == {SP, NL}
\* the characters of the texts the model feeds to the string helpers
Alphabet == {"a", SP, NL}

None == "None"

\* every sequence over S of length at most n
SeqUpTo(S, n) == UNION {[1..k -> S] : k \in 0..n}

\* len(s.strip()) == 0
IsBlank(s) == \A i \in 1..Len(s) : s[i] \in Whitespace

RECURSIVE Concat(_)
\* "".join(fragments)
Concat(fragments) ==
    IF fragments = <<>> THEN <<>>
    ELSE Head(fragments) \o Concat(Tail(fragments))

RECURSIVE SplitFrom(_, _)
\* the lines of s, the line in progress being cur
SplitFrom(s, cur) ==
    IF s = <<>> THEN <<cur>>
    ELSE IF Head(s) = NL THEN <<cur>> \o SplitFrom(Tail(s), <<>>)
    ELSE SplitFrom(Tail(s), Append(cur, Head(s)))

\* s.split("\n"): one more line than s has line breaks
Split(s) == SplitFrom(s, <<>>)

RECURSIVE Join(_)
\* "\n".join(lines)
Join(lines) ==
    IF lines = <<>> THEN <<>>
    ELSE IF Len(lines) = 1 THEN lines[1]
    ELSE lines[1] \o <<NL>> \o Join(Tail(lines))

-----------------------------------------------------------------------------
(* JupyterCodeTranslator.strip_blank_lines_in_end_of_block                 *)

RECURSIVE StripLoop(_, _)
\* the for loop with n iterations of range(len(lines)) left; lines[-1] of an
\* empty list raises IndexError
StripLoop(lines, n) ==
    IF n = 0 THEN [lines |-> lines, raised |-> FALSE]
    ELSE IF lines = <<>> THEN [lines |-> lines, raised |-> TRUE]
    ELSE IF IsBlank(lines[Len(lines)])
         THEN StripLoop(SubSeq(lines, 1, Len(lines) - 1), n - 1)
         ELSE [lines |-> lines, raised |-> FALSE]

\* the loop of a mutant that drops every blank line, not only the trailing ones
StripAllBlank(line_text) ==
    LET lines == Split(line_text)
    IN  [lines  |-> SelectSeq(lines, LAMBDA l : ~IsBlank(l)),
         raised |-> FALSE]

StripRun(line_text) ==
    LET lines == Split(line_text) IN StripLoop(lines, Len(lines))

strip_blank_lines_in_end_of_block(line_text) == Join(StripRun(line_text).lines)

-----------------------------------------------------------------------------
(* JupyterOutputCellGenerators                                             *)

CODE == "CODE"
MARKDOWN == "MARKDOWN"
CODE_OUTPUT == "CODE_OUTPUT"

\* the class names GetGeneratorFromClasses tests for
Recognized == {"no-execute", "skip-test", "output"}
\* the class names of the model's literal blocks
Tags == Recognized \cup {"hide-output"}

\* one iteration of the loop over class_list
\* a mutant of ClassStep: "skip-test" is not a recognized class
ClassStepNoSkip(res, item) ==
    IF item = "no-execute" THEN MARKDOWN
    ELSE IF item = "output" THEN CODE_OUTPUT
    ELSE res

ClassStep(res, item) ==
    IF item = "no-execute" THEN MARKDOWN
    ELSE IF item = "skip-test" THEN MARKDOWN
    ELSE IF item = "output" THEN CODE_OUTPUT
    ELSE res

RECURSIVE ClassLoop(_, _)
ClassLoop(res, class_list) ==
    IF class_list = <<>> THEN res
    ELSE ClassLoop(ClassStep(res, Head(class_list)), Tail(class_list))

RECURSIVE FirstWins(_)
\* a mutant: the first recognized class decides
FirstWins(class_list) ==
    IF class_list = <<>> THEN CODE
    ELSE IF Head(class_list) \in Recognized THEN ClassStep(CODE, Head(class_list))
    ELSE FirstWins(Tail(class_list))

GetGeneratorFromClasses(class_list) == ClassLoop(CODE, class_list)

-----------------------------------------------------------------------------
(* Values of the configuration and of the document's attributes.           *)

\* self.default_lang
default_lang == <<"python3">>
\* Python's None where a text is expected (self.lang, a missing attribute)
NoneText == <<None>>

\* s.strip(): s without its leading and trailing whitespace
RECURSIVE LStrip(_)
LStrip(s) ==
    IF s = <<>> THEN s
    ELSE IF Head(s) \in Whitespace THEN LStrip(Tail(s))
    ELSE s

RECURSIVE RStrip(_)
RStrip(s) ==
    IF s = <<>> THEN s
    ELSE IF s[Len(s)] \in Whitespace THEN RStrip(SubSeq(s, 1, Len(s) - 1))
    ELSE s

StripStr(s) == RStrip(LStrip(s))

\* a fragment of a buffer: its text, and the node (its place in document order
\* and its kind) whose handler appended it
Frag(s, node) == [s |-> s, n |-> node.n, kind |-> node.kind]

\* "".join(buffer)
JoinFrags(buffer) == Concat([i \in 1..Len(buffer) |-> buffer[i].s])

\* the nodes whose fragments the buffer holds
NodesOf(buffer) ==
    {[n |-> buffer[i].n, kind |-> buffer[i].kind] : i \in 1..Len(buffer)}

\* nbformat.v4.new_markdown_cell / new_code_cell / new_output; nodes records the
\* document nodes the text came from
new_markdown_cell(source, nodes) ==
    [cell_type |-> "markdown", source |-> source, outputs |-> <<>>, nodes |-> nodes]

new_code_cell(source, nodes) ==
    [cell_type |-> "code", source |-> source, outputs |-> <<>>, nodes |-> nodes]

new_output(text, nodes) ==
    [output_type |-> "stream", text |-> text, nodes |-> nodes]

\* a mutant of translate: a name without entry has no translation
TranslateOrNone(table, sphinxLanguageName) ==
    IF sphinxLanguageName \in DOMAIN table THEN table[sphinxLanguageName]
    ELSE NoneText

\* LanguageTranslator.translate
translate(table, sphinxLanguageName) ==
    IF sphinxLanguageName \in DOMAIN table THEN table[sphinxLanguageName]
    ELSE sphinxLanguageName

\* the three backquotes that open and close a fenced block, as one element
FENCE == "fence"

\* JupyterOutputCellGenerators.Generate; "raise" stands for the Exception of
\* an invalid cell type
Generate(kind, formatted_text, nl, nodes) ==
    IF kind = CODE THEN new_code_cell(formatted_text, nodes)
    ELSE IF kind = CODE_OUTPUT THEN new_output(formatted_text, nodes)
    ELSE IF kind = MARKDOWN THEN
        LET language == IF nl \in {NoneText, <<>>} THEN <<>> ELSE nl
            raw_markdown == <<FENCE>> \o language \o <<NL>>
                            \o formatted_text \o <<NL, FENCE, NL>>
        IN  new_markdown_cell(raw_markdown, nodes)
    ELSE [cell_type |-> "raise", source |-> <<>>, outputs |-> <<>>, nodes |-> nodes]

-----------------------------------------------------------------------------
(* The document tree, as walkabout meets it.                               *)

\* the most nodes of one document (the document node not counted)
MaxNodes == 5
\* the deepest nesting of nodes below the document node
MaxDepth == 4

\* a node: its kind, its place in document order, and the attributes of a
\* literal block (classes; language, NoneText when the block has none)
Node(kind, n, classes, language) ==
    [kind |-> kind, n |-> n, classes |-> classes, language |-> language]

\* what the last handler did, and to which node
Op(op, node, what) == [op |-> op, node |-> node, what |-> what]

\* the document node
Document == Node("document", 0, <<>>, NoneText)

\* the kinds of node a node of kind parent may hold (docutils' content model)
Children(parent) ==
    CASE parent = "document" ->
            {"section", "topic", "paragraph", "literal_block", "bullet_list",
             "enumerated_list", "highlightlang", "admonition"}
      [] parent = "section" ->
            {"title", "section", "topic", "paragraph", "literal_block",
             "bullet_list", "enumerated_list", "highlightlang", "admonition"}
      [] parent = "admonition" -> {"title", "paragraph"}
      [] parent = "topic" -> {"title", "paragraph", "bullet_list"}
      [] parent = "title" -> {"Text"}
      [] parent = "paragraph" -> {"Text", "reference"}
      [] parent = "reference" -> {"Text"}
      [] parent = "literal_block" -> {"Text"}
      [] parent \in {"bullet_list", "enumerated_list"} -> {"list_item"}
      [] parent = "list_item" ->
            {"paragraph", "literal_block", "bullet_list", "enumerated_list"}
      [] OTHER -> {}

Top == stack[Len(stack)]

\* walkabout is about to enter a child of the node on top of the stack
CanVisit(kind) ==
    /\ status = "walking"
    /\ stack # <<>>
    /\ visited < node_count
    /\ kind \in Children(Top.kind)

\* ... a child that has children of its own
CanEnter(kind) == CanVisit(kind) /\ Len(stack) <= MaxDepth

\* walkabout is about to leave the node on top of the stack
CanDepart(kind) ==
    /\ status = "walking"
    /\ stack # <<>>
    /\ Top.kind = kind

\* the node walkabout enters next
NewNode(kind) == Node(kind, visited + 1, <<>>, NoneText)

Enter(kind, classes, language) ==
    /\ stack' = Append(stack, Node(kind, visited + 1, classes, language))
    /\ visited' = visited + 1

Leave ==
    /\ stack' = SubSeq(stack, 1, Len(stack) - 1)
    /\ UNCHANGED visited

cfgVars == <<conversion_mode, translator, jupyter_kernels, jupyter_headers,
             jupyter_write_metadata, node_count>>
listVars == <<indents, bullets, list_item_starts, list_level>>
codeVars == <<nodelang, in_code_block, output_cell_type, code_lines>>
refVars == <<in_reference, reference_text_start>>

\* a mutant of Full: the translator of "all" mode is used in either mode
AlwaysFull == TRUE

\* JupyterWriter.__init__: the translator class is JupyterTranslator
Full == conversion_mode = "all"

-----------------------------------------------------------------------------
(* Construction: JupyterCodeTranslator.__init__, JupyterTranslator.__init__ *)

\* a mutant of MetaText: the cell does not hold the time of the conversion
MetaTextWithoutTime(now) ==
    <<"Notebook created: ", SP, SP, NL, "Generated from: ", "source_file_name",
      SP, SP>>

\* the text of the generation-metadata cell written at time now
MetaText(now) ==
    <<"Notebook created: ", now, SP, SP, NL, "Generated from: ", "source_file_name",
      SP, SP>>

\* the cells __init__ leaves in the notebook: the welcome block when its file
\* was found, then the metadata cell when metadata is written
InitialCells(welcome, write_metadata, now) ==
    (IF welcome.found
     THEN <<new_markdown_cell(strip_blank_lines_in_end_of_block(welcome.text), {})>>
     ELSE <<>>)
    \o
    (IF write_metadata THEN <<new_markdown_cell(MetaText(now), {})>> ELSE <<>>)

\* no call of a static helper is in progress
Idle == [pc |-> "idle"]

InitWith(modes, tables, kernels, headers, metas, welcomes, clocks, nodes) ==
    /\ node_count = nodes
    /\ conversion_mode \in modes
    /\ translator \in tables
    /\ jupyter_kernels \in kernels
    /\ jupyter_headers \in headers
    /\ jupyter_write_metadata \in metas
    /\ \E welcome \in welcomes, now \in clocks :
          cells = InitialCells(welcome, jupyter_write_metadata, now)
    /\ lang = NoneText
    /\ nodelang = NoneText
    /\ kernelspec = NoneText
    /\ in_code_block = FALSE
    /\ output_cell_type = None
    /\ code_lines = <<>>
    /\ markdown_lines = <<>>
    /\ indents = <<>>
    /\ bullets = <<>>
    /\ list_item_starts = <<>>
    /\ list_level = 0
    /\ section_level = 0
    /\ in_topic = FALSE
    /\ in_reference = FALSE
    /\ reference_text_start = 0
    /\ warnings = <<>>
    /\ stack = <<>>
    /\ status = "constructed"
    /\ visited = 0
    /\ last = Op("__init__", Document, "")

-----------------------------------------------------------------------------
(* The parts of the handlers that compute a value.                         *)

\* a mutant of add_markdown_cell: the new cell goes before the other cells
PrependMarkdownCell(cs, buffer) ==
    LET line_text == JoinFrags(buffer)
        formatted_line_text == strip_blank_lines_in_end_of_block(line_text)
    IN  IF ~IsBlank(formatted_line_text)
        THEN [cells |-> <<new_markdown_cell(formatted_line_text,
                                            NodesOf(buffer))>> \o cs,
              markdown_lines |-> <<>>]
        ELSE [cells |-> cs, markdown_lines |-> buffer]

\* JupyterTranslator.add_markdown_cell: the cells and the buffer it leaves
add_markdown_cell(cs, buffer) ==
    LET line_text == JoinFrags(buffer)
        formatted_line_text == strip_blank_lines_in_end_of_block(line_text)
    IN  IF ~IsBlank(formatted_line_text)
        THEN [cells |-> Append(cs, new_markdown_cell(formatted_line_text,
                                                     NodesOf(buffer))),
              markdown_lines |-> <<>>]
        ELSE [cells |-> cs, markdown_lines |-> buffer]

\* visit_literal_block: the language of the block before translation
BlockLanguage(language, cur) ==
    IF language = NoneText THEN cur ELSE StripStr(language)

\* a mutant of BlockKind: the language of the block is not looked at
BlockKindByClasses(table, classes, language, cur) ==
    GetGeneratorFromClasses(classes)

\* visit_literal_block: the cell type the block ends with
BlockKind(table, classes, language, cur) ==
    IF translate(table, BlockLanguage(language, cur)) # translate(table, cur)
    THEN MARKDOWN
    ELSE GetGeneratorFromClasses(classes)

\* a mutant of AttachOutput: a code cell takes every output block
AttachAlways(cs, new_output_cell) ==
    IF cs = <<>> THEN [cells |-> cs, what |-> "IndexError"]
    ELSE LET mostRecentCell == cs[Len(cs)]
         IN  IF mostRecentCell.cell_type # "code"
             THEN [cells |-> cs, what |-> "warn_not_code"]
             ELSE [cells |-> [cs EXCEPT ![Len(cs)].outputs =
                                 Append(@, new_output_cell),
                              ![Len(cs)].nodes = @ \cup new_output_cell.nodes],
                   what |-> "attached"]

\* depart_literal_block, an output block: the cells it leaves, and what it did
\* (self.output["cells"][-1] of an empty list raises IndexError)
AttachOutput(cs, new_output_cell) ==
    IF cs = <<>> THEN [cells |-> cs, what |-> "IndexError"]
    ELSE LET mostRecentCell == cs[Len(cs)]
         IN  IF mostRecentCell.cell_type # "code"
             THEN [cells |-> cs, what |-> "warn_not_code"]
             ELSE IF mostRecentCell.outputs # <<>>
             THEN [cells |-> cs, what |-> "warn_multiple"]
             ELSE [cells |-> [cs EXCEPT ![Len(cs)].outputs =
                                 Append(@, new_output_cell),
                              ![Len(cs)].nodes = @ \cup new_output_cell.nodes],
                   what |-> "attached"]

RECURSIVE ReplaceNL(_, _)
\* s.replace("\n", "\n" + indent)
ReplaceNL(s, indent) ==
    IF s = <<>> THEN <<>>
    ELSE IF Head(s) = NL THEN <<NL>> \o indent \o ReplaceNL(Tail(s), indent)
    ELSE <<Head(s)>> \o ReplaceNL(Tail(s), indent)

\* c * k
Rep(c, k) == [i \in 1..k |-> c]

\* self.sep_lines, self.sep_paras
sep_lines == <<SP, SP, NL>>
sep_paras == <<NL, NL>>

\* list.insert(i, x), i counted from 0
Insert(list, i, x) ==
    LET k == IF i > Len(list) THEN Len(list) ELSE i
    IN  SubSeq(list, 1, k) \o <<x>> \o SubSeq(list, k + 1, Len(list))

RECURSIVE InsertAll(_, _, _)
\* for h in hs: list.insert(i, h)
InsertAll(list, i, hs) ==
    IF hs = <<>> THEN list
    ELSE InsertAll(Insert(list, i, Head(hs)), i, Tail(hs))

\* hs[::-1]
Reverse(hs) == [i \in 1..Len(hs) |-> hs[Len(hs) + 1 - i]]

\* the texts of the Text nodes: a word, a word and a line break, a blank, and
\* the empty text of an empty included file
Word == <<"a">>
Line == <<"a", NL>>
Blank == <<SP>>
ProseTexts == {Word, Blank}
CodeTexts == {Word, Line, <<>>}

\* the visible texts of a reference: a word, two words with one and with two
\* whitespace characters between them, and a word with blanks around it
RefTexts == {<<"a">>, <<"a", SP, "b">>, <<"a", SP, NL, "b">>, <<SP, "a", SP>>}

\* the text of a Text node below a node of kind parent
TextsIn(parent) ==
    IF parent = "literal_block" THEN CodeTexts
    ELSE IF parent = "reference" THEN RefTexts
    ELSE ProseTexts

-----------------------------------------------------------------------------
(* The handlers.  In "code" mode the translator is JupyterCodeTranslator,  *)
(* whose handlers for all but the document, highlightlang, Text and        *)
(* literal_block nodes are default_visit and default_departure.            *)

visit_document ==
    /\ status = "constructed"
    /\ lang' = default_lang
    /\ stack' = <<Document>>
    /\ status' = "walking"
    /\ last' = Op("visit_document", Document, "")
    /\ UNCHANGED <<pure, cfgVars, refVars, listVars, codeVars, cells, kernelspec,
                   markdown_lines, section_level, in_topic, warnings, visited>>

visit_section ==
    /\ CanEnter("section")
    /\ Enter("section", <<>>, NoneText)
    /\ section_level' = IF Full THEN section_level + 1 ELSE section_level
    /\ last' = Op("visit_section", NewNode("section"), "")
    /\ UNCHANGED <<pure, cfgVars, refVars, listVars, codeVars, lang, cells, kernelspec,
                   markdown_lines, in_topic, warnings, status>>

depart_section ==
    /\ CanDepart("section")
    /\ Leave
    /\ section_level' = IF Full THEN section_level - 1 ELSE section_level
    /\ last' = Op("depart_section", Top, "")
    /\ UNCHANGED <<pure, cfgVars, refVars, listVars, codeVars, lang, cells, kernelspec,
                   markdown_lines, in_topic, warnings, status>>

\* default_visit and default_departure of a node without handlers of its
\* own: an admonition
default_visit(kind) ==
    /\ CanEnter(kind)
    /\ Enter(kind, <<>>, NoneText)
    /\ last' = Op("default_visit", NewNode(kind), "")
    /\ UNCHANGED <<pure, cfgVars, refVars, listVars, codeVars, lang, cells,
                   kernelspec, markdown_lines, section_level, in_topic,
                   warnings, status>>

default_departure(kind) ==
    /\ CanDepart(kind)
    /\ Leave
    /\ last' = Op("default_departure", Top, "")
    /\ UNCHANGED <<pure, cfgVars, refVars, listVars, codeVars, lang, cells,
                   kernelspec, markdown_lines, section_level, in_topic,
                   warnings, status>>

visit_admonition == default_visit("admonition")

depart_admonition == default_departure("admonition")

visit_topic ==
    /\ CanEnter("topic")
    /\ Enter("topic", <<>>, NoneText)
    /\ in_topic' = IF Full THEN TRUE ELSE in_topic
    /\ last' = Op("visit_topic", NewNode("topic"), "")
    /\ UNCHANGED <<pure, cfgVars, refVars, listVars, codeVars, lang, cells, kernelspec,
                   markdown_lines, section_level, warnings, status>>

depart_topic ==
    /\ CanDepart("topic")
    /\ Leave
    /\ in_topic' = IF Full THEN FALSE ELSE in_topic
    /\ last' = Op("depart_topic", Top, "")
    /\ UNCHANGED <<pure, cfgVars, refVars, listVars, codeVars, lang, cells, kernelspec,
                   markdown_lines, section_level, warnings, status>>

\* visit_Text and depart_Text (which does nothing) of a Text node
visit_Text(text) ==
    /\ CanVisit("Text")
    /\ text \in TextsIn(Top.kind)
    /\ visited' = visited + 1
    /\ IF in_code_block
       THEN /\ code_lines' = Append(code_lines, Frag(text, NewNode("Text")))
            /\ UNCHANGED markdown_lines
       ELSE /\ markdown_lines' = IF Full
                                 THEN Append(markdown_lines, Frag(text, NewNode("Text")))
                                 ELSE markdown_lines
            /\ UNCHANGED code_lines
    /\ last' = Op("visit_Text", NewNode("Text"), "")
    /\ UNCHANGED <<pure, cfgVars, refVars, listVars, nodelang, in_code_block,
                   output_cell_type, lang, cells, kernelspec, section_level,
                   in_topic, warnings, stack, status>>

visit_paragraph ==
    /\ CanEnter("paragraph")
    /\ Enter("paragraph", <<>>, NoneText)
    /\ last' = Op("visit_paragraph", NewNode("paragraph"), "")
    /\ UNCHANGED <<pure, cfgVars, refVars, listVars, codeVars, lang, cells, kernelspec,
                   markdown_lines, section_level, in_topic, warnings, status>>

depart_paragraph ==
    /\ CanDepart("paragraph")
    /\ Leave
    /\ markdown_lines' =
          IF ~Full THEN markdown_lines
          ELSE IF list_level > 0
          THEN Append(markdown_lines, Frag(sep_lines, Top))
          ELSE Append(markdown_lines, Frag(sep_paras, Top))
    /\ last' = Op("depart_paragraph", Top, "")
    /\ UNCHANGED <<pure, cfgVars, refVars, listVars, codeVars, lang, cells, kernelspec,
                   section_level, in_topic, warnings, status>>

\* a mutant of HeadingMarker: a topic does not add to the level
HeadingMarkerOfSections(level, topic) == Rep("#", level) \o <<SP>>

\* visit_title: the heading marker
HeadingMarker(level, topic) ==
    IF topic THEN Rep("#", level + 1) \o <<SP>> ELSE Rep("#", level) \o <<SP>>

visit_title ==
    /\ CanEnter("title")
    /\ Enter("title", <<>>, NoneText)
    /\ IF Full
       THEN LET flushed == add_markdown_cell(cells, markdown_lines)
            IN  /\ cells' = flushed.cells
                /\ markdown_lines' =
                      Append(flushed.markdown_lines,
                             Frag(HeadingMarker(section_level, in_topic),
                                  NewNode("title")))
       ELSE UNCHANGED <<cells, markdown_lines>>
    /\ last' = Op("visit_title", NewNode("title"), "")
    /\ UNCHANGED <<pure, cfgVars, refVars, listVars, codeVars, lang, kernelspec,
                   section_level, in_topic, warnings, status>>

depart_title ==
    /\ CanDepart("title")
    /\ Leave
    /\ markdown_lines' = IF Full
                         THEN Append(markdown_lines, Frag(sep_paras, Top))
                         ELSE markdown_lines
    /\ last' = Op("depart_title", Top, "")
    /\ UNCHANGED <<pure, cfgVars, refVars, listVars, codeVars, lang, cells, kernelspec,
                   section_level, in_topic, warnings, status>>

\* visit_bullet_list (marker "-") and visit_enumerated_list (marker "1.")
VisitList(kind, marker) ==
    /\ CanEnter(kind)
    /\ Enter(kind, <<>>, NoneText)
    /\ IF Full
       THEN /\ list_level' = list_level + 1
            /\ bullets' = Append(bullets, marker)
            /\ indents' = Append(indents, Len(marker) + 1)
       ELSE UNCHANGED <<list_level, bullets, indents>>
    /\ last' = Op(IF kind = "bullet_list" THEN "visit_bullet_list"
                  ELSE "visit_enumerated_list", NewNode(kind), "")
    /\ UNCHANGED <<pure, cfgVars, refVars, codeVars, list_item_starts, lang, cells,
                   kernelspec, markdown_lines, section_level, in_topic, warnings,
                   status>>

visit_bullet_list == VisitList("bullet_list", <<"-">>)

visit_enumerated_list == VisitList("enumerated_list", <<"1", ".">>)

depart_bullet_list ==
    /\ CanDepart("bullet_list")
    /\ Leave
    /\ IF Full
       THEN /\ list_level' = list_level - 1
            /\ IF list_level - 1 = 0
               THEN LET buffer == Append(markdown_lines, Frag(sep_paras, Top))
                        flushed == add_markdown_cell(cells, buffer)
                    IN  IF in_topic
                        THEN /\ cells' = flushed.cells
                             /\ markdown_lines' = flushed.markdown_lines
                        ELSE /\ markdown_lines' = buffer
                             /\ UNCHANGED cells
               ELSE UNCHANGED <<cells, markdown_lines>>
            /\ bullets' = SubSeq(bullets, 1, Len(bullets) - 1)
            /\ indents' = SubSeq(indents, 1, Len(indents) - 1)
       ELSE UNCHANGED <<list_level, bullets, indents, cells, markdown_lines>>
    /\ last' = Op("depart_bullet_list", Top, "")
    /\ UNCHANGED <<pure, cfgVars, refVars, codeVars, list_item_starts, lang, kernelspec,
                   section_level, in_topic, warnings, status>>

depart_enumerated_list ==
    /\ CanDepart("enumerated_list")
    /\ Leave
    /\ IF Full
       THEN /\ list_level' = list_level - 1
            /\ markdown_lines' =
                  IF list_level - 1 = 0
                  THEN Append(markdown_lines, Frag(sep_paras, Top))
                  ELSE markdown_lines
            /\ bullets' = SubSeq(bullets, 1, Len(bullets) - 1)
            /\ indents' = SubSeq(indents, 1, Len(indents) - 1)
       ELSE UNCHANGED <<list_level, bullets, indents, markdown_lines>>
    /\ last' = Op("depart_enumerated_list", Top, "")
    /\ UNCHANGED <<pure, cfgVars, refVars, codeVars, list_item_starts, lang, cells,
                   kernelspec, section_level, in_topic, warnings, status>>

visit_list_item ==
    /\ CanEnter("list_item")
    /\ Enter("list_item", <<>>, NoneText)
    /\ IF Full
       THEN LET head == bullets[Len(bullets)] \o <<SP>>
                buffer == Append(markdown_lines, Frag(head, NewNode("list_item")))
            IN  /\ markdown_lines' = buffer
                /\ list_item_starts' = Append(list_item_starts, Len(buffer))
       ELSE UNCHANGED <<markdown_lines, list_item_starts>>
    /\ last' = Op("visit_list_item", NewNode("list_item"), "")
    /\ UNCHANGED <<pure, cfgVars, refVars, codeVars, indents, bullets, list_level, lang,
                   cells, kernelspec, section_level, in_topic, warnings, status>>

\* depart_list_item: the buffer it leaves; self.markdown_lines[-1][-1] raises
\* IndexError when the buffer is empty or its last fragment is the empty text
ReindentItem(buffer, list_item_start, indent, node) ==
    IF buffer = <<>> \/ buffer[Len(buffer)].s = <<>>
    THEN [markdown_lines |-> buffer, what |-> "IndexError"]
    ELSE LET tail == buffer[Len(buffer)].s
             br_removed_flag == tail[Len(tail)] = NL
             cut == IF br_removed_flag
                    THEN [buffer EXCEPT ![Len(buffer)].s =
                              SubSeq(tail, 1, Len(tail) - 1)]
                    ELSE buffer
             done == [i \in 1..Len(cut) |->
                        IF i > list_item_start
                        THEN [cut[i] EXCEPT !.s = ReplaceNL(cut[i].s, indent)]
                        ELSE cut[i]]
         IN  [markdown_lines |-> IF br_removed_flag
                                 THEN Append(done, Frag(<<NL>>, node))
                                 ELSE done,
              what |-> ""]

depart_list_item ==
    /\ CanDepart("list_item")
    /\ IF Full
       THEN LET list_item_start == list_item_starts[Len(list_item_starts)]
                indent == Rep(SP, indents[Len(indents)])
                r == ReindentItem(markdown_lines, list_item_start, indent, Top)
            IN  /\ list_item_starts' =
                      SubSeq(list_item_starts, 1, Len(list_item_starts) - 1)
                /\ markdown_lines' = r.markdown_lines
                /\ last' = Op("depart_list_item", Top, r.what)
                /\ IF r.what = "IndexError"
                   THEN /\ status' = "raised"
                        /\ UNCHANGED <<stack, visited>>
                   ELSE /\ Leave
                        /\ UNCHANGED status
       ELSE /\ Leave
            /\ last' = Op("depart_list_item", Top, "")
            /\ UNCHANGED <<list_item_starts, markdown_lines, status>>
    /\ UNCHANGED <<pure, cfgVars, refVars, codeVars, indents, bullets, list_level, lang,
                   cells, kernelspec, section_level, in_topic, warnings>>

\* JupyterCodeTranslator.visit_literal_block, then in "all" mode the flush of
\* JupyterTranslator.visit_literal_block
visit_literal_block(classes, language) ==
    /\ CanEnter("literal_block")
    /\ Enter("literal_block", classes, language)
    /\ output_cell_type' = BlockKind(translator, classes, language, lang)
    /\ nodelang' = translate(translator, BlockLanguage(language, lang))
    /\ in_code_block' = TRUE
    /\ code_lines' = <<>>
    /\ IF Full
       THEN LET flushed == add_markdown_cell(cells, markdown_lines)
            IN  /\ cells' = flushed.cells
                /\ markdown_lines' = flushed.markdown_lines
       ELSE UNCHANGED <<cells, markdown_lines>>
    /\ last' = Op("visit_literal_block",
                Node("literal_block", visited + 1, classes, language), "")
    /\ UNCHANGED <<pure, cfgVars, refVars, listVars, lang, kernelspec, section_level,
                   in_topic, warnings, status>>

\* the warning depart_literal_block gives when it did what
OutputWarning(what) ==
    IF what = "warn_not_code" THEN <<"output_after_non_code_cell">>
    ELSE IF what = "warn_multiple" THEN <<"multiple_output_blocks">>
    ELSE <<>>

depart_literal_block ==
    /\ CanDepart("literal_block")
    /\ LET line_text == JoinFrags(code_lines)
           formatted_line_text == strip_blank_lines_in_end_of_block(line_text)
           nodes == {[n |-> Top.n, kind |-> Top.kind]} \cup NodesOf(code_lines)
           new_code_cell_ == Generate(output_cell_type, formatted_line_text,
                                      nodelang, nodes)
           r == IF output_cell_type \notin {CODE, MARKDOWN, CODE_OUTPUT}
                THEN [cells |-> cells, what |-> "Exception"]
                ELSE IF output_cell_type = CODE_OUTPUT
                THEN AttachOutput(cells, new_code_cell_)
                ELSE [cells |-> Append(cells, new_code_cell_), what |-> "appended"]
       IN  /\ cells' = r.cells
           /\ warnings' = warnings \o OutputWarning(r.what)
           /\ last' = Op("depart_literal_block", Top, r.what)
           /\ IF r.what \in {"IndexError", "Exception"}
              THEN /\ status' = "raised"
                   /\ UNCHANGED <<stack, visited, in_code_block>>
              ELSE /\ Leave
                   /\ in_code_block' = FALSE
                   /\ UNCHANGED status
    /\ UNCHANGED <<pure, cfgVars, refVars, listVars, nodelang, output_cell_type,
                   code_lines, lang, kernelspec, markdown_lines, section_level,
                   in_topic>>

\* visit_highlightlang and the default departure of a highlightlang node;
\* "lang in self.jupyter_kernels" raises TypeError when jupyter_kernels is None
visit_highlightlang(language) ==
    /\ CanVisit("highlightlang")
    /\ visited' = visited + 1
    /\ LET lang_ == StripStr(language)
           node == Node("highlightlang", visited + 1, <<>>, language)
       IN  IF jupyter_kernels.is_none
           THEN /\ status' = "raised"
                /\ last' = Op("visit_highlightlang", node, "TypeError")
                /\ UNCHANGED <<lang, warnings>>
           ELSE IF lang_ \in jupyter_kernels.langs
           THEN /\ lang' = lang_
                /\ last' = Op("visit_highlightlang", node, "set")
                /\ UNCHANGED <<status, warnings>>
           ELSE /\ lang' = default_lang
                /\ warnings' = Append(warnings, "language_not_in_kernels")
                /\ last' = Op("visit_highlightlang", node, "default")
                /\ UNCHANGED status
    /\ UNCHANGED <<pure, cfgVars, refVars, listVars, codeVars, cells, kernelspec,
                   markdown_lines, section_level, in_topic, stack>>

\* a mutant of KernelSpec: a language without kernel gets the default kernel
KernelSpecOrDefault(kernels, lang_, old) ==
    IF kernels.is_none THEN old
    ELSE IF lang_ \in kernels.langs THEN lang_
    ELSE default_lang

\* depart_document: output.metadata.kernelspec after the lookup of
\* jupyter_kernels[lang]["kernelspec"] (a kernel spec is named by its language)
KernelSpec(kernels, lang_, old) ==
    IF kernels.is_none THEN old
    ELSE IF lang_ \in kernels.langs THEN lang_
    ELSE old

\* JupyterCodeTranslator.depart_document, after the flush of
\* JupyterTranslator.depart_document in "all" mode
depart_document ==
    /\ CanDepart("document")
    /\ LET flushed == IF Full THEN add_markdown_cell(cells, markdown_lines)
                      ELSE [cells |-> cells, markdown_lines |-> markdown_lines]
           no_lang == lang \in {NoneText, <<>>}
           lang_ == IF no_lang THEN default_lang ELSE lang
           headers_ok == /\ ~jupyter_headers.is_none
                         /\ lang_ \in DOMAIN jupyter_headers.cells
           kernels_ok == /\ ~jupyter_kernels.is_none
                         /\ lang_ \in jupyter_kernels.langs
       IN  /\ markdown_lines' = flushed.markdown_lines
           /\ lang' = lang_
           /\ cells' = IF headers_ok
                       THEN InsertAll(flushed.cells,
                                      IF jupyter_write_metadata THEN 1 ELSE 0,
                                      Reverse(jupyter_headers.cells[lang_]))
                       ELSE flushed.cells
           /\ kernelspec' = KernelSpec(jupyter_kernels, lang_, kernelspec)
           /\ warnings' = warnings
                \o (IF no_lang THEN <<"language_not_given">> ELSE <<>>)
                \o (IF ~jupyter_headers.is_none /\ ~headers_ok
                    THEN <<"invalid_jupyter_headers">> ELSE <<>>)
                \o (IF ~jupyter_kernels.is_none /\ ~kernels_ok
                    THEN <<"invalid_jupyter_kernels">> ELSE <<>>)
    /\ Leave
    /\ status' = "done"
    /\ last' = Op("depart_document", Document, "")
    /\ UNCHANGED <<pure, cfgVars, refVars, listVars, codeVars, section_level, in_topic>>

-----------------------------------------------------------------------------
(* References: visit_reference, depart_reference and their helpers.        *)

\* a reference node and its attributes; refuri and refid are NoneText when
\* the node does not have the attribute
Reference(n, attributes) ==
    [kind |-> "reference", n |-> n, classes |-> <<>>, language |-> NoneText,
     attributes |-> attributes]

Attributes(refuri, internal, refid) ==
    [refuri |-> refuri, internal |-> internal, refid |-> refid]

\* self.default_ext
default_ext == <<".", "ipynb">>

\* a mutant of Slug: a run of whitespace characters gives one dash
SlugCollapsed(text) ==
    LET keep == {i \in 1..Len(text) :
                    ~(text[i] \in Whitespace /\ i > 1 /\ text[i - 1] \in Whitespace)}
        nth(k) == CHOOSE i \in keep : Cardinality({j \in keep : j <= i}) = k
    IN  [k \in 1..Cardinality(keep) |->
            IF text[nth(k)] \in Whitespace THEN "-" ELSE text[nth(k)]]

\* re.sub(URI_SPACE_REPLACE_FROM, URI_SPACE_REPLACE_TO, text): the pattern is
\* \s, one whitespace character
Slug(text) ==
    [i \in 1..Len(text) |-> IF text[i] \in Whitespace THEN "-" ELSE text[i]]

\* depart_reference in a topic: the text appended to the buffer
TopicTarget(buffer, start) ==
    LET uri_text == StripStr(JoinFrags(SubSeq(buffer, start + 1, Len(buffer))))
    IN  <<"]", "(", "#">> \o Slug(uri_text) \o <<")">>

\* split_uri_id: SPLIT_URI_ID_REGEX cuts the uri at its first "#"
split_uri_id(uri) ==
    LET hashes == {i \in 1..Len(uri) : uri[i] = "#"}
    IN  IF hashes = {} THEN <<uri, <<>>>>
        ELSE LET i == CHOOSE x \in hashes : \A y \in hashes : x <= y
             IN  <<SubSeq(uri, 1, i - 1), SubSeq(uri, i + 1, Len(uri))>>

add_extension_to_inline_link(uri, ext) ==
    IF \A i \in 1..Len(uri) : uri[i] # "."
    THEN LET parts == split_uri_id(uri)
         IN  parts[1] \o ext \o <<"#">> \o parts[2]
    ELSE uri

\* depart_reference outside a topic: the uri of the link, and whether
\* self.error was called
ReferenceUri(attributes) ==
    IF attributes.refuri # NoneText
    THEN [refuri |-> IF attributes.internal
                     THEN add_extension_to_inline_link(attributes.refuri, default_ext)
                     ELSE attributes.refuri,
          error |-> FALSE]
    ELSE IF attributes.refid # NoneText
    THEN [refuri |-> <<"#">> \o attributes.refid, error |-> FALSE]
    ELSE [refuri |-> <<>>, error |-> TRUE]

visit_reference(attributes) ==
    /\ CanEnter("reference")
    /\ stack' = Append(stack, Reference(visited + 1, attributes))
    /\ visited' = visited + 1
    /\ IF Full
       THEN /\ in_reference' = TRUE
            /\ markdown_lines' = Append(markdown_lines,
                                        Frag(<<"[">>, NewNode("reference")))
            /\ reference_text_start' = Len(markdown_lines')
       ELSE UNCHANGED <<refVars, markdown_lines>>
    /\ last' = Op("visit_reference", Reference(visited + 1, attributes), "")
    /\ UNCHANGED <<pure, cfgVars, listVars, codeVars, lang, cells, kernelspec,
                   section_level, in_topic, warnings, status>>

depart_reference ==
    /\ CanDepart("reference")
    /\ Leave
    /\ IF ~Full
       THEN UNCHANGED <<refVars, markdown_lines, warnings>>
       ELSE /\ in_reference' = FALSE
            /\ UNCHANGED reference_text_start
            /\ IF in_topic
               THEN /\ markdown_lines' =
                          Append(markdown_lines,
                                 Frag(TopicTarget(markdown_lines,
                                                  reference_text_start), Top))
                    /\ UNCHANGED warnings
               ELSE LET r == ReferenceUri(Top.attributes)
                    IN  /\ markdown_lines' =
                              Append(markdown_lines,
                                     Frag(<<"]", "(">> \o r.refuri \o <<")">>, Top))
                        /\ warnings' = IF r.error
                                       THEN Append(warnings, "invalid_reference")
                                       ELSE warnings
    /\ last' = Op("depart_reference", Top, "")
    /\ UNCHANGED <<pure, cfgVars, listVars, codeVars, lang, cells, kernelspec,
                   section_level, in_topic, status>>

-----------------------------------------------------------------------------
(* Configurations and documents of the model.                              *)

\* a templates directory without languages.xml, and one whose file maps the
\* Sphinx name ipython to the Jupyter name python3
NoTable == [name \in {} |-> name]
IPythonTable == [name \in {<<"ipython">>} |-> <<"python3">>]

\* jupyter_kernels of conf.py, the setting left at its default None, and a
\* setting without the default language
ConfKernels == [is_none |-> FALSE, langs |-> {<<"python3">>, <<"julia">>}]
NoKernels == [is_none |-> TRUE, langs |-> {}]
JuliaKernels == [is_none |-> FALSE, langs |-> {<<"julia">>}]

\* jupyter_headers of conf.py (no header cell for either language), and the
\* setting left at its default None
ConfHeaders ==
    [is_none |-> FALSE,
     cells |-> [name \in {<<"python3">>, <<"julia">>} |-> <<>>]]
NoHeaders == [is_none |-> TRUE, cells |-> [name \in {} |-> <<>>]]

\* a setting with two header cells for python3 and no entry for julia
Header1 == new_code_cell(<<"h1">>, {})
Header2 == new_markdown_cell(<<"h2">>, {})
TwoHeaders ==
    [is_none |-> FALSE, cells |-> [name \in {<<"python3">>} |-> <<Header1, Header2>>]]

\* the welcome block: no file found, an empty file, a file with a line of text
NoWelcome == [found |-> FALSE, text |-> <<>>]
EmptyWelcome == [found |-> TRUE, text |-> <<>>]
SomeWelcome == [found |-> TRUE, text |-> <<"w", NL>>]

\* every class list of a literal block, and the few of the whole-document model
MaxClasses == 2
ClassLists == SeqUpTo(Tags, MaxClasses)
FewClassLists == {<<>>, <<"output">>, <<"no-execute">>}

\* the language attribute of a literal block: absent, the default language,
\* another kernel's, a name the table translates, a name with blanks around
BlockLanguages ==
    {NoneText, <<"python3">>, <<"ipython">>, <<SP, "julia", SP>>}
FewBlockLanguages == {NoneText, <<"julia">>}

\* the lang attribute of a highlightlang node
HighlightLanguages == {<<"python3">>, <<"julia">>, <<SP, "julia">>, <<"c">>}
FewHighlightLanguages == {<<"julia">>, <<"c">>}

-----------------------------------------------------------------------------
(* The conversion of a document: JupyterWriter.translate.                  *)

Init ==
    /\ pure = Idle
    /\ InitWith({"code", "all"}, {NoTable}, {ConfKernels}, {ConfHeaders},
                BOOLEAN, {NoWelcome}, {"t1"}, MaxNodes)

Next ==
    \/ visit_document
    \/ visit_section
    \/ depart_section
    \/ visit_topic
    \/ depart_topic
    \/ \E text \in ProseTexts \cup CodeTexts : visit_Text(text)
    \/ visit_paragraph
    \/ depart_paragraph
    \/ visit_title
    \/ depart_title
    \/ visit_bullet_list
    \/ depart_bullet_list
    \/ visit_enumerated_list
    \/ depart_enumerated_list
    \/ visit_list_item
    \/ depart_list_item
    \/ \E classes \in FewClassLists, language \in FewBlockLanguages :
          visit_literal_block(classes, language)
    \/ depart_literal_block
    \/ \E language \in FewHighlightLanguages : visit_highlightlang(language)
    \/ depart_document

Spec == Init /\ [][Next]_vars

-----------------------------------------------------------------------------
(* Documents of paragraphs, literal blocks and highlightlang nodes.        *)

\* the most nodes of such a document
MaxCodeNodes == 4

InitCode ==
    /\ pure = Idle
    /\ InitWith({"code", "all"}, {NoTable}, {ConfKernels}, {ConfHeaders},
                BOOLEAN, {NoWelcome}, {"t1"}, MaxCodeNodes)

NextCode ==
    \/ visit_document
    \/ \E text \in ProseTexts \cup CodeTexts : visit_Text(text)
    \/ visit_paragraph
    \/ depart_paragraph
    \/ \E classes \in FewClassLists, language \in FewBlockLanguages :
          visit_literal_block(classes, language)
    \/ depart_literal_block
    \/ \E language \in FewHighlightLanguages : visit_highlightlang(language)
    \/ depart_document

SpecCode == InitCode /\ [][NextCode]_vars

-----------------------------------------------------------------------------
(* Documents of literal blocks and highlightlang nodes, with every class   *)
(* list and every language attribute.                                      *)

\* the most nodes of such a document
MaxLangNodes == 2

InitLang ==
    /\ pure = Idle
    /\ InitWith({"code", "all"}, {IPythonTable}, {ConfKernels},
                {ConfHeaders}, BOOLEAN, {NoWelcome}, {"t1"}, MaxLangNodes)

NextLang ==
    \/ visit_document
    \/ \E text \in {Word} : visit_Text(text)
    \/ \E classes \in ClassLists, language \in BlockLanguages :
          visit_literal_block(classes, language)
    \/ depart_literal_block
    \/ \E language \in HighlightLanguages : visit_highlightlang(language)
    \/ depart_document

SpecLang == InitLang /\ [][NextLang]_vars

-----------------------------------------------------------------------------
(* Short documents under every setting of the kernels, the headers, the    *)
(* metadata cell and the welcome block.                                    *)

\* the most nodes of such a document
MaxExitNodes == 2

InitExit ==
    /\ pure = Idle
    /\ InitWith({"code", "all"}, {NoTable},
                {ConfKernels, NoKernels, JuliaKernels},
                {ConfHeaders, NoHeaders, TwoHeaders}, BOOLEAN,
                {NoWelcome, EmptyWelcome, SomeWelcome}, {"t1"}, MaxExitNodes)

NextExit ==
    \/ visit_document
    \/ \E text \in ProseTexts \cup CodeTexts : visit_Text(text)
    \/ visit_paragraph
    \/ depart_paragraph
    \/ \E classes \in FewClassLists, language \in FewBlockLanguages :
          visit_literal_block(classes, language)
    \/ depart_literal_block
    \/ \E language \in HighlightLanguages : visit_highlightlang(language)
    \/ depart_document

SpecExit == InitExit /\ [][NextExit]_vars

-----------------------------------------------------------------------------
(* Documents of every kind of node under JupyterCodeTranslator ("code").   *)

\* the most nodes of such a document
MaxMinimalNodes == 4

InitMinimal ==
    /\ pure = Idle
    /\ InitWith({"code"}, {NoTable}, {ConfKernels}, {ConfHeaders}, BOOLEAN,
                {NoWelcome, EmptyWelcome, SomeWelcome}, {"t1"}, MaxMinimalNodes)

NextMinimal ==
    \/ visit_document
    \/ visit_section
    \/ depart_section
    \/ visit_topic
    \/ depart_topic
    \/ \E text \in ProseTexts \cup CodeTexts : visit_Text(text)
    \/ visit_paragraph
    \/ depart_paragraph
    \/ visit_title
    \/ depart_title
    \/ visit_bullet_list
    \/ depart_bullet_list
    \/ visit_enumerated_list
    \/ depart_enumerated_list
    \/ visit_list_item
    \/ depart_list_item
    \/ \E classes \in FewClassLists, language \in FewBlockLanguages :
          visit_literal_block(classes, language)
    \/ depart_literal_block
    \/ \E language \in FewHighlightLanguages : visit_highlightlang(language)
    \/ depart_document

SpecMinimal == InitMinimal /\ [][NextMinimal]_vars

-----------------------------------------------------------------------------
(* Topics and paragraphs with references.                                  *)

MaxRefNodes == 5

\* the uris of the references: a page, a page with a fragment, a file with an
\* extension; and the attributes of a reference node
Uris == {<<"page">>, <<"page", "#", "sec">>, <<"page", ".", "html">>}
RefAttributes ==
    {Attributes(u, i, NoneText) : u \in Uris, i \in BOOLEAN}
    \cup {Attributes(NoneText, FALSE, <<"sec">>),
          Attributes(NoneText, FALSE, NoneText)}

InitRef ==
    /\ pure = Idle
    /\ InitWith({"code", "all"}, {NoTable}, {ConfKernels}, {ConfHeaders},
                {FALSE}, {NoWelcome}, {"t1"}, MaxRefNodes)

NextRef ==
    \/ visit_document
    \/ visit_topic
    \/ depart_topic
    \/ visit_paragraph
    \/ depart_paragraph
    \/ \E text \in {Word} \cup RefTexts : visit_Text(text)
    \/ \E attributes \in RefAttributes : visit_reference(attributes)
    \/ depart_reference
    \/ depart_document

SpecRef == InitRef /\ [][NextRef]_vars

-----------------------------------------------------------------------------
(* Two conversions of one document: JupyterWriter.translate is called      *)
(* twice on the same document tree, each call with a translator of its     *)
(* own, the second under either conversion mode and at either time.        *)

MaxTwiceNodes == 5

\* a node of the document tree, in document order: depth is the number of
\* its ancestors
ScriptNode(kind, depth, classes, language, text) ==
    [kind |-> kind, depth |-> depth, classes |-> classes,
     language |-> language, text |-> text]

\* the kind of the parent of a node of this depth that follows the nodes of
\* doc in document order ("none" when no node of doc can be its parent)
ParentKind(doc, depth) ==
    IF depth = 1 THEN "document"
    ELSE LET above == {i \in 1..Len(doc) : doc[i].depth < depth}
         IN  IF above = {} THEN "none"
             ELSE LET i == CHOOSE x \in above : \A y \in above : y <= x
                  IN  IF doc[i].depth = depth - 1 THEN doc[i].kind ELSE "none"

\* the nodes of this depth that may follow the nodes of doc: paragraphs,
\* literal blocks that are code or output, highlightlang directives, texts
NodesAt(doc, depth) ==
    LET kinds == Children(ParentKind(doc, depth))
    IN  (IF "paragraph" \in kinds
         THEN {ScriptNode("paragraph", depth, <<>>, NoneText, <<>>)} ELSE {})
        \cup
        (IF "literal_block" \in kinds
         THEN {ScriptNode("literal_block", depth, classes, NoneText, <<>>) :
                  classes \in {<<>>, <<"output">>}}
         ELSE {})
        \cup
        (IF "highlightlang" \in kinds
         THEN {ScriptNode("highlightlang", depth, <<>>, <<"julia">>, <<>>)}
         ELSE {})
        \cup
        (IF "Text" \in kinds
         THEN {ScriptNode("Text", depth, <<>>, NoneText, Word)} ELSE {})

RECURSIVE DocumentsUpTo(_)
\* the document trees of at most n nodes
DocumentsUpTo(n) ==
    IF n = 0 THEN {<<>>}
    ELSE LET shorter == DocumentsUpTo(n - 1)
         IN  shorter \cup
             UNION {{Append(doc, node) : node \in NodesAt(doc, 1) \cup NodesAt(doc, 2)} :
                       doc \in {d \in shorter : Len(d) = n - 1}}

\* what a conversion left: its mode and time, visitor.output, and how
\* walkabout ended
Output ==
    [mode |-> conversion_mode, now |-> pure.now, cells |-> cells, lang |-> lang,
     kernelspec |-> kernelspec, status |-> status, warnings |-> warnings]

InitTwice ==
    /\ InitWith({"code", "all"}, {NoTable}, {ConfKernels}, {ConfHeaders},
                BOOLEAN, {NoWelcome}, {"t1"}, MaxTwiceNodes)
    /\ pure \in {[pc |-> "first", document |-> doc, welcome |-> NoWelcome,
                  now |-> "t1", first |-> Idle] :
                 doc \in DocumentsUpTo(MaxTwiceNodes)}

\* walkabout has nodes of the document left to enter
MoreNodes == visited < Len(pure.document)

\* the node walkabout enters next
Due == pure.document[visited + 1]

\* the next node of the document is a child of the node on top of the stack,
\* of this kind
Visits(kind) ==
    /\ MoreNodes
    /\ Due.kind = kind
    /\ Due.depth = Len(stack)

\* the node on top of the stack has no child left
Departs == IF MoreNodes THEN Due.depth < Len(stack) ELSE TRUE

\* translate is called again: a new translator is constructed
Restart ==
    /\ pure.pc = "first"
    /\ status \in {"done", "raised"}
    /\ \E mode \in {"code", "all"}, now \in {"t1", "t2"} :
          /\ pure' = [pure EXCEPT !.pc = "second", !.now = now, !.first = Output]
          /\ conversion_mode' = mode
          /\ cells' = InitialCells(pure.welcome, jupyter_write_metadata, now)
    /\ lang' = NoneText
    /\ nodelang' = NoneText
    /\ kernelspec' = NoneText
    /\ in_code_block' = FALSE
    /\ output_cell_type' = None
    /\ code_lines' = <<>>
    /\ markdown_lines' = <<>>
    /\ indents' = <<>>
    /\ bullets' = <<>>
    /\ list_item_starts' = <<>>
    /\ list_level' = 0
    /\ section_level' = 0
    /\ in_topic' = FALSE
    /\ in_reference' = FALSE
    /\ reference_text_start' = 0
    /\ warnings' = <<>>
    /\ stack' = <<>>
    /\ status' = "constructed"
    /\ visited' = 0
    /\ last' = Op("__init__", Document, "")
    /\ UNCHANGED <<translator, jupyter_kernels, jupyter_headers,
                   jupyter_write_metadata, node_count>>

NextTwice ==
    \/ visit_document
    \/ Visits("Text") /\ visit_Text(Due.text)
    \/ Visits("paragraph") /\ visit_paragraph
    \/ Departs /\ depart_paragraph
    \/ Visits("literal_block") /\ visit_literal_block(Due.classes, Due.language)
    \/ Departs /\ depart_literal_block
    \/ Visits("highlightlang") /\ visit_highlightlang(Due.language)
    \/ Departs /\ depart_document
    \/ Restart

SpecTwice == InitTwice /\ [][NextTwice]_vars

-----------------------------------------------------------------------------
(* Documents of sections, topics, titles, lists, prose and literal blocks  *)
(* under JupyterTranslator ("all"), with header cells and with or without  *)
(* the metadata cell.                                                      *)

MaxFullNodes == 5

InitFull ==
    /\ pure = Idle
    /\ InitWith({"all"}, {NoTable}, {ConfKernels}, {TwoHeaders}, BOOLEAN,
                {NoWelcome}, {"t1"}, MaxFullNodes)

NextFull ==
    \/ visit_document
    \/ visit_section
    \/ depart_section
    \/ visit_topic
    \/ depart_topic
    \/ visit_Text(Word)
    \/ visit_paragraph
    \/ depart_paragraph
    \/ visit_title
    \/ depart_title
    \/ visit_bullet_list
    \/ depart_bullet_list
    \/ visit_list_item
    \/ depart_list_item
    \/ \E classes \in {<<>>, <<"output">>} : visit_literal_block(classes, NoneText)
    \/ depart_literal_block
    \/ depart_document

SpecFull == InitFull /\ [][NextFull]_vars

-----------------------------------------------------------------------------
(* Documents of sections, topics and admonitions with their titles.        *)

MaxTitleNodes == 5

InitTitles ==
    /\ pure = Idle
    /\ InitWith({"code", "all"}, {NoTable}, {ConfKernels}, {ConfHeaders},
                {FALSE}, {NoWelcome}, {"t1"}, MaxTitleNodes)

NextTitles ==
    \/ visit_document
    \/ visit_section
    \/ depart_section
    \/ visit_topic
    \/ depart_topic
    \/ visit_admonition
    \/ depart_admonition
    \/ visit_title
    \/ depart_title
    \/ \E text \in ProseTexts : visit_Text(text)
    \/ visit_paragraph
    \/ depart_paragraph
    \/ depart_document

SpecTitles == InitTitles /\ [][NextTitles]_vars

-----------------------------------------------------------------------------
(* A traversal that goes on until walkabout returns or raises: documents   *)
(* of paragraphs, literal blocks and highlightlang nodes under             *)
(* JupyterTranslator ("all"), with and without configured kernels.         *)

MaxFairNodes == 4

InitFair ==
    /\ pure = Idle
    /\ InitWith({"all"}, {NoTable}, {ConfKernels, NoKernels}, {ConfHeaders},
                {FALSE}, {NoWelcome}, {"t1"}, MaxFairNodes)

NextFair ==
    \/ visit_document
    \/ \E text \in ProseTexts \cup CodeTexts : visit_Text(text)
    \/ visit_paragraph
    \/ depart_paragraph
    \/ \E classes \in {<<>>, <<"output">>} : visit_literal_block(classes, NoneText)
    \/ depart_literal_block
    \/ visit_highlightlang(<<"julia">>)
    \/ depart_document

\* walkabout does not stop before the document has been left or a handler
\* has raised
SpecFair == InitFair /\ [][NextFair]_vars /\ WF_vars(NextFair)

-----------------------------------------------------------------------------
(* Calls of the static helpers on their own.                               *)

\* the traversal is not running
InitIdle ==
    InitWith({"code"}, {NoTable}, {ConfKernels}, {ConfHeaders}, {FALSE},
             {NoWelcome}, {"t1"}, 0)

\* strip_blank_lines_in_end_of_block(arg), and then of its own result
InitStrip ==
    /\ pure \in {[pc |-> "call", arg |-> t, res |-> <<>>, raised |-> FALSE,
                  again |-> <<>>] : t \in SeqUpTo(Alphabet, MaxLen)}
    /\ InitIdle

StripCall ==
    /\ pure.pc = "call"
    /\ pure' = [pure EXCEPT !.pc = "returned",
                            !.res = strip_blank_lines_in_end_of_block(pure.arg),
                            !.raised = StripRun(pure.arg).raised]
    /\ UNCHANGED travVars

StripAgain ==
    /\ pure.pc = "returned"
    /\ pure' = [pure EXCEPT !.pc = "again",
                            !.again = strip_blank_lines_in_end_of_block(pure.res),
                            !.raised = StripRun(pure.res).raised]
    /\ UNCHANGED travVars

NextStrip == StripCall \/ StripAgain

SpecStrip == InitStrip /\ [][NextStrip]_vars

\* GetGeneratorFromClasses(arg)
InitClassify ==
    /\ pure \in {[pc |-> "call", arg |-> t, res |-> None] :
                 t \in SeqUpTo(Tags, MaxTags)}
    /\ InitIdle

ClassifyCall ==
    /\ pure.pc = "call"
    /\ pure' = [pure EXCEPT !.pc = "returned",
                            !.res = GetGeneratorFromClasses(pure.arg)]
    /\ UNCHANGED travVars

NextClassify == ClassifyCall

SpecClassify == InitClassify /\ [][NextClassify]_vars

-----------------------------------------------------------------------------
(* The language translator: LanguageTranslator.__init__ and translate.     *)

\* a name of a language element is missing (None) or empty
Truthy(name) == name \notin {NoneText, <<>>}

\* self.translator[sphinxLang] = jupyterLang
SetItem(table, key, value) ==
    [name \in DOMAIN table \cup {key} |-> IF name = key THEN value ELSE table[name]]

RECURSIVE LoadLanguages(_, _)
\* for language in languages: the entry is stored when both names are given
LoadLanguages(table, languages) ==
    IF languages = <<>> THEN table
    ELSE LET language == Head(languages)
             stored == IF Truthy(language.sphinxLang) /\ Truthy(language.jupyterLang)
                       THEN SetItem(table, language.sphinxLang, language.jupyterLang)
                       ELSE table
         IN  LoadLanguages(stored, Tail(languages))

RECURSIVE LoadPaths(_, _)
\* for potentialPath in templatePaths: every languages.xml that is a file is read
LoadPaths(table, templatePaths) ==
    IF templatePaths = <<>> THEN table
    ELSE LET potentialPath == Head(templatePaths)
             read == IF potentialPath.isfile
                     THEN LoadLanguages(table, potentialPath.languages)
                     ELSE table
         IN  LoadPaths(read, Tail(templatePaths))

\* the table of LanguageTranslator(templatePaths)
LanguageTranslator(templatePaths) == LoadPaths(NoTable, templatePaths)

\* a language element of languages.xml
Language(sphinxLang, jupyterLang) ==
    [sphinxLang |-> sphinxLang, jupyterLang |-> jupyterLang]

\* the directories of templates_path: without languages.xml, with a file of one
\* entry, with a file that maps the same name otherwise and one more name, and
\* with a file whose entries lack a name
NoFile == [isfile |-> FALSE, languages |-> <<>>]
FileA == [isfile |-> TRUE,
          languages |-> <<Language(<<"ipython">>, <<"python3">>)>>]
FileB == [isfile |-> TRUE,
          languages |-> <<Language(<<"ipython">>, <<"julia">>),
                          Language(<<"jl">>, <<"julia">>)>>]
FileBad == [isfile |-> TRUE,
            languages |-> <<Language(NoneText, <<"python3">>),
                            Language(<<"r">>, NoneText),
                            Language(<<"r">>, <<>>)>>]
Directories == {NoFile, FileA, FileB, FileBad}

\* the names translate is called with
Names == {<<"ipython">>, <<"jl">>, <<"r">>, <<"python3">>}

\* the most directories of templates_path, and the most calls of translate
MaxPaths == 2
MaxCalls == 2

\* every variable but pure and translator
notTable == <<conversion_mode, jupyter_kernels, jupyter_headers,
              jupyter_write_metadata, lang, nodelang, cells, kernelspec,
              in_code_block, output_cell_type, code_lines, markdown_lines,
              indents, bullets, list_item_starts, list_level, section_level,
              in_topic, in_reference, reference_text_start, warnings, stack,
              status, visited, node_count, last>>

InitTable ==
    /\ pure \in {[pc |-> "new", templatePaths |-> t, calls |-> <<>>] :
                 t \in SeqUpTo(Directories, MaxPaths)}
    /\ InitIdle

\* self.langTranslator = LanguageTranslator(builder.config["templates_path"])
NewTranslator ==
    /\ pure.pc = "new"
    /\ translator' = LanguageTranslator(pure.templatePaths)
    /\ pure' = [pure EXCEPT !.pc = "ready"]
    /\ UNCHANGED notTable

\* self.langTranslator.translate(sphinxLanguageName)
TranslateCall(sphinxLanguageName) ==
    /\ pure.pc = "ready"
    /\ Len(pure.calls) < MaxCalls
    /\ pure' = [pure EXCEPT !.calls =
                   Append(@, [name |-> sphinxLanguageName,
                              res |-> translate(translator, sphinxLanguageName)])]
    /\ UNCHANGED travVars

NextTable ==
    \/ NewTranslator
    \/ \E sphinxLanguageName \in Names : TranslateCall(sphinxLanguageName)

SpecTable == InitTable /\ [][NextTable]_vars

-----------------------------------------------------------------------------
(* The claims.                                                             *)

\* the handler that ran last was depart_literal_block, and it returned
ClosedBlock == last.op = "depart_literal_block" /\ status # "raised"

\* this step is depart_literal_block (whether it returns or raises)
DepartsBlock == CanDepart("literal_block") /\ last'.op = "depart_literal_block"

\* the places of the recognized classes in a class list
RecognizedAt(class_list) ==
    {i \in 1..Len(class_list) : class_list[i] \in Recognized}

\* the cell type a recognized class stands for
KindOfClass(class) == IF class = "output" THEN CODE_OUTPUT ELSE MARKDOWN

\* the largest element of a non-empty set of numbers
Max(S) == CHOOSE x \in S : \A y \in S : y <= x

(* C6: GetGeneratorFromClasses returns CODE for a class list without a     *)
(* recognized class, and otherwise the cell type of the last recognized    *)
(* class of the list (MARKDOWN for "no-execute" and "skip-test",           *)
(* CODE_OUTPUT for "output"); the other classes of the list do not change  *)
(* the result.                                                             *)
C6_LastRecognizedClassWins ==
    pure.pc = "returned" =>
        LET at == RecognizedAt(pure.arg)
            others_removed == SelectSeq(pure.arg, LAMBDA c : c \in Recognized)
        IN  /\ at = {} => pure.res = CODE
            /\ at # {} => pure.res = KindOfClass(pure.arg[Max(at)])
            /\ others_removed # <<>> =>
                  pure.res = KindOfClass(others_removed[Len(others_removed)])
            /\ others_removed = <<>> => pure.res = CODE

\* "no-execute" first, "output" last, another class after it: CODE_OUTPUT
C6_Witness ==
    /\ pure.pc = "returned"
    /\ pure.arg = <<"no-execute", "output", "hide-output">>
    /\ pure.res = CODE_OUTPUT

\* the lines of a text up to its last line that is not blank
UpToLastNonBlank(lines) ==
    LET at == {i \in 1..Len(lines) : ~IsBlank(lines[i])}
    IN  IF at = {} THEN <<>> ELSE SubSeq(lines, 1, Max(at))

(* C10: strip_blank_lines_in_end_of_block returns the lines of its         *)
(* argument without the longest run of blank lines at its end: the lines   *)
(* before it, blank ones among them, are unchanged and in order, the last  *)
(* line of the result is not blank unless the result is empty, the loop    *)
(* ends without raising, and stripping the result again changes nothing.   *)
C10_StripsTrailingBlankLines ==
    pure.pc \in {"returned", "again"} =>
        LET lines == Split(pure.arg)
            kept == UpToLastNonBlank(lines)
            res_lines == Split(pure.res)
        IN  /\ ~pure.raised
            /\ pure.res = Join(kept)
            /\ pure.res = <<>> \/ ~IsBlank(res_lines[Len(res_lines)])
            /\ Len(kept) <= Len(lines)
            /\ \A i \in 1..Len(kept) : res_lines[i] = lines[i]
            /\ pure.pc = "again" => pure.again = pure.res

\* a text with a blank line inside and a blank line at its end
C10_Witness ==
    /\ pure.pc = "again"
    /\ pure.arg = <<"a", NL, NL, "a", NL>>
    /\ pure.res = <<"a", NL, NL, "a">>

\* the text depart_literal_block makes of the lines of the open block
BlockText == strip_blank_lines_in_end_of_block(JoinFrags(code_lines))

\* cs has the cells of old, unchanged and in the same places, at its start
Extends(cs, old) ==
    /\ Len(cs) >= Len(old)
    /\ \A i \in 1..Len(old) : cs[i] = old[i]

(* C1: the traversal never ends with an exception: whatever the document   *)
(* and the configuration, no handler raises.                               *)
C1_NoHandlerRaises == status # "raised"

C2_AtMostOneOutput ==
    \A i \in 1..Len(cells) :
        cells[i].cell_type = "code" => Len(cells[i].outputs) <= 1

C2_OutputBlockCloses ==
    (/\ DepartsBlock
     /\ output_cell_type = CODE_OUTPUT
     /\ cells # <<>>
     /\ cells[Len(cells)].cell_type = "code")
    => IF cells[Len(cells)].outputs = <<>>
       THEN /\ Len(cells') = Len(cells)
            /\ \A i \in 1..(Len(cells) - 1) : cells'[i] = cells[i]
            /\ cells'[Len(cells)].cell_type = "code"
            /\ cells'[Len(cells)].source = cells[Len(cells)].source
            /\ Len(cells'[Len(cells)].outputs) = 1
            /\ cells'[Len(cells)].outputs[1].text = BlockText
            /\ warnings' = warnings
       ELSE /\ cells' = cells
            /\ warnings' = Append(warnings, "multiple_output_blocks")

(* C2: every code cell holds at most one output in every state; an output  *)
(* block that closes when the last cell is a code cell without output      *)
(* becomes that cell's only output, and one that closes when the last cell *)
(* is a code cell with an output is dropped with a warning, the cells      *)
(* (the first output among them) unchanged.                                *)
C2_SingleOutput == [](C2_AtMostOneOutput) /\ [][C2_OutputBlockCloses]_vars

\* a second output block was dropped; the first output is still the only one
C2_Witness ==
    /\ ClosedBlock
    /\ last.what = "warn_multiple"
    /\ cells[Len(cells)].cell_type = "code"
    /\ Len(cells[Len(cells)].outputs) = 1

(* C3: an output block that closes when there is no cell at all, or when   *)
(* the last cell is a markdown cell, is dropped with a warning: the cells  *)
(* are unchanged, in_code_block is cleared and the traversal goes on.      *)
C3_NoCellToAttachTo ==
    [][(/\ DepartsBlock
        /\ output_cell_type = CODE_OUTPUT
        /\ (cells = <<>> \/ cells[Len(cells)].cell_type = "markdown"))
       => /\ cells' = cells
          /\ warnings' = Append(warnings, "output_after_non_code_cell")
          /\ in_code_block' = FALSE
          /\ status' = "walking"]_vars

\* the language a block declares (its name, without blanks around it), or the
\* language of the document when it declares none
DeclaredOrCurrent(node) ==
    IF node.language = NoneText THEN lang ELSE StripStr(node.language)

\* the text of a fenced block of markdown
IsFenced(source) ==
    /\ Len(source) >= 5
    /\ source[1] = FENCE
    /\ SubSeq(source, Len(source) - 2, Len(source)) = <<NL, FENCE, NL>>

(* C4: a literal block whose language (its own, or the document's when it  *)
(* has none) translates to another name than the language of the document  *)
(* closes as one new markdown cell holding a fenced block, whatever its    *)
(* classes: no code cell is added and no cell is given an output.          *)
C4_OtherLanguageIsMarkdown ==
    [][(/\ DepartsBlock
        /\ translate(translator, DeclaredOrCurrent(Top))
             # translate(translator, lang))
       => /\ Len(cells') = Len(cells) + 1
          /\ Extends(cells', cells)
          /\ cells'[Len(cells')].cell_type = "markdown"
          /\ IsFenced(cells'[Len(cells')].source)
          /\ status' = "walking"]_vars

\* a julia block with class "output" in a python3 document became markdown
C4_Witness ==
    /\ ClosedBlock
    /\ last.node.classes = <<"output">>
    /\ last.node.language = <<SP, "julia", SP>>
    /\ lang = <<"python3">>
    /\ cells # <<>>
    /\ cells[Len(cells)].cell_type = "markdown"
    /\ IsFenced(cells[Len(cells)].source)

\* the node is a literal block with the class no-execute or skip-test
NotExecuted(node) ==
    /\ node.kind = "literal_block"
    /\ \E i \in 1..Len(node.classes) : node.classes[i] \in {"no-execute", "skip-test"}

(* C5: while a literal block with the class "no-execute" or "skip-test" is *)
(* open, and when it closes, no code cell is added to the cells, whatever  *)
(* its language, the language of the document and its other classes.       *)
C5_NoExecuteAddsNoCodeCell ==
    [][(stack # <<>> /\ NotExecuted(Top))
       => /\ Len(cells') >= Len(cells)
          /\ \A i \in 1..Len(cells') :
                i > Len(cells) => cells'[i].cell_type # "code"]_vars

\* a skip-test block in the language of the document became a markdown cell
C5_Witness ==
    /\ ClosedBlock
    /\ last.node.classes = <<"output", "skip-test">>
    /\ last.node.language = NoneText
    /\ last.what = "appended"
    /\ cells[Len(cells)].cell_type = "markdown"

\* the node is a prose segment or a code-like block
IsContent(tag) == tag.kind \in {"Text", "literal_block"}

(* C7: in "all" mode, of two Text nodes or literal blocks that are each in *)
(* a cell, the one that comes first in the document is in the same cell as *)
(* the other or in an earlier one.                                         *)
C7_OrderPreserved ==
    Full =>
        \A i, j \in 1..Len(cells) :
            \A a \in cells[i].nodes, b \in cells[j].nodes :
                (IsContent(a) /\ IsContent(b) /\ a.n < b.n) => i <= j

(* C8: in "all" mode the markdown buffer is empty after every flush: after *)
(* the entry of a literal block, after the end of a top-level bullet list  *)
(* in a topic and at the end of the document; after the entry of a title   *)
(* it holds the heading marker only.                                       *)
C8_BufferEmptyAfterFlush ==
    Full =>
        /\ last.op \in {"visit_literal_block", "depart_document"}
              => markdown_lines = <<>>
        /\ (last.op = "depart_bullet_list" /\ in_topic /\ list_level = 0)
              => markdown_lines = <<>>
        /\ last.op = "visit_title"
              => (Len(markdown_lines) = 1 /\ markdown_lines[1].kind = "title")

(* C9: no cell of the notebook has a text that is empty or blank.          *)
C9_NoEmptyCell == \A i \in 1..Len(cells) : ~IsBlank(cells[i].source)

\* this step is depart_document
DepartsDocument == CanDepart("document") /\ last'.op = "depart_document"

\* the place of the generation-metadata cell in the cells (0: there is none)
MetaAt(cs) ==
    IF \E i \in 1..Len(cs) : cs[i].source # <<>> /\ cs[i].source[1] = "Notebook created: "
    THEN CHOOSE i \in 1..Len(cs) : cs[i].source # <<>> /\ cs[i].source[1] = "Notebook created: "
    ELSE 0

\* jupyter_headers has header cells for the language
HasHeaders(name) ==
    ~jupyter_headers.is_none /\ name \in DOMAIN jupyter_headers.cells

(* C11: at the exit of the document, when jupyter_headers has an entry for *)
(* the language, its header cells are in the cells in their order, one     *)
(* after the other, right after the metadata cell when metadata is written *)
(* (a welcome cell may come before it) and from the first place when it is *)
(* not, the other cells keeping their order; when jupyter_headers is set   *)
(* and has no entry, a warning is logged and no cell is inserted.          *)
C11_HeadersAfterMetadata ==
    [][DepartsDocument =>
        IF HasHeaders(lang')
        THEN LET hs == jupyter_headers.cells[lang']
                 at == IF jupyter_write_metadata THEN MetaAt(cells) ELSE 0
             IN  /\ jupyter_write_metadata => at > 0
                 /\ Len(cells') >= Len(cells) + Len(hs)
                 /\ \A i \in 1..at : cells'[i] = cells[i]
                 /\ \A i \in 1..Len(hs) : cells'[at + i] = hs[i]
                 /\ \A i \in (at + 1)..Len(cells) : cells'[i + Len(hs)] = cells[i]
        ELSE /\ Extends(cells', cells)
             /\ ~Full => cells' = cells
             /\ ~jupyter_headers.is_none =>
                   \E i \in (Len(warnings) + 1)..Len(warnings') :
                       warnings'[i] = "invalid_jupyter_headers"]_vars

\* jupyter_kernels has a kernel for the language
HasKernel(name) == ~jupyter_kernels.is_none /\ name \in jupyter_kernels.langs

\* the step logs the warning of a failed kernel lookup, as its last warning
WarnsOfKernels ==
    /\ Len(warnings') > Len(warnings)
    /\ warnings'[Len(warnings')] = "invalid_jupyter_kernels"

\* what the exit of the document does besides the kernel lookup
C12_RestOfExit ==
    /\ status' = "done"
    /\ (~HasHeaders(lang') \/ jupyter_headers.cells[lang'] = <<>>)
           => /\ Extends(cells', cells)
              /\ ~Full => cells' = cells

(* C12, as first stated: at the exit of the document the kernel spec of    *)
(* the language is set when jupyter_kernels has an entry for it; in every  *)
(* other case a warning is logged, the kernel spec stays unset, no cell    *)
(* changes and the conversion completes.                                   *)
C12_WarnsWithoutEntry ==
    [][DepartsDocument =>
        /\ C12_RestOfExit
        /\ IF HasKernel(lang')
           THEN kernelspec' = lang'
           ELSE kernelspec' = NoneText /\ WarnsOfKernels]_vars

(* C12: at the exit of the document the kernel spec of the language is set *)
(* when jupyter_kernels has an entry for it; when jupyter_kernels is set   *)
(* and has no entry for it a warning is logged and the kernel spec stays   *)
(* unset; when jupyter_kernels is not set (None) the kernel spec stays     *)
(* unset and no warning is logged. In each case the lookup changes no cell *)
(* and the conversion completes.                                           *)
C12_KernelSpecAtExit ==
    [][DepartsDocument =>
        /\ C12_RestOfExit
        /\ IF HasKernel(lang')
           THEN /\ kernelspec' = lang'
                /\ ~WarnsOfKernels
           ELSE IF ~jupyter_kernels.is_none
           THEN /\ kernelspec' = NoneText
                /\ WarnsOfKernels
           ELSE /\ kernelspec' = NoneText
                /\ ~WarnsOfKernels]_vars

\* the document ended in python3 and jupyter_kernels has julia only
C12_Witness ==
    /\ status = "done"
    /\ jupyter_kernels = JuliaKernels
    /\ lang = <<"python3">>
    /\ kernelspec = NoneText
    /\ warnings # <<>>
    /\ warnings[Len(warnings)] = "invalid_jupyter_kernels"

\* the languages of jupyter_kernels
Registered == IF jupyter_kernels.is_none THEN {} ELSE jupyter_kernels.langs

C13_RegisterInKernels ==
    status \in {"walking", "done", "raised"} =>
        lang \in {default_lang} \cup Registered

C13_OnlyDirectivesSetIt ==
    status = "walking" =>
        IF last'.op = "visit_highlightlang"
        THEN LET name == StripStr(last'.node.language)
             IN  IF name \in Registered
                 THEN lang' = name /\ warnings' = warnings
                 ELSE /\ lang' = default_lang
                      /\ warnings' = Append(warnings, "language_not_in_kernels")
        ELSE lang' = lang

(* C13: from the entry of the document on, the language of the document   *)
(* is the default language or a language of jupyter_kernels; a             *)
(* highlightlang node with a language of jupyter_kernels sets it to that   *)
(* language, one with another language logs a warning and sets it to the   *)
(* default language, and no other node changes it.                         *)
C13_LanguageRegister ==
    [](C13_RegisterInKernels) /\ [][C13_OnlyDirectivesSetIt]_vars

C14_ResultsFollowTable ==
    pure.pc = "ready" =>
        \A i \in 1..Len(pure.calls) :
            LET call == pure.calls[i]
            IN  /\ call.name \in DOMAIN translator => call.res = translator[call.name]
                /\ call.name \notin DOMAIN translator => call.res = call.name

C14_TableNotModified == pure.pc = "ready" => translator' = translator

(* C14: every call of translate returns the name the table maps its        *)
(* argument to when the argument is a key of the table, and the argument   *)
(* itself otherwise; no call changes the table, so that the results of all *)
(* calls, earlier and later, follow the one table.                         *)
C14_Translate ==
    [](C14_ResultsFollowTable) /\ [][C14_TableNotModified]_vars

\* with the table of FileA, ipython was translated and then jl was not
C14_Witness ==
    /\ pure.pc = "ready"
    /\ pure.templatePaths = <<FileA>>
    /\ pure.calls = <<[name |-> <<"ipython">>, res |-> <<"python3">>],
                      [name |-> <<"jl">>, res |-> <<"jl">>]>>

\* the smallest element of a non-empty set of numbers
Min(S) == CHOOSE x \in S : \A y \in S : x <= y

\* the table of one mapping file: its entries with both names, a later entry
\* of a name replacing an earlier one
IsTableOf(table, languages) ==
    LET good == {k \in 1..Len(languages) :
                    Truthy(languages[k].sphinxLang) /\ Truthy(languages[k].jupyterLang)}
    IN  /\ DOMAIN table = {languages[k].sphinxLang : k \in good}
        /\ \A k \in good :
              (\A m \in good : m > k => languages[m].sphinxLang # languages[k].sphinxLang)
                  => table[languages[k].sphinxLang] = languages[k].jupyterLang

(* C15: the table of the translator is the table of the first directory of *)
(* templates_path that holds a mapping file: the files of later            *)
(* directories add no entry and replace none, and an entry without its     *)
(* Sphinx name or its Jupyter name adds nothing.                           *)
C15_FirstFileOnly ==
    pure.pc = "ready" =>
        LET paths == pure.templatePaths
            found == {i \in 1..Len(paths) : paths[i].isfile}
        IN  IF found = {} THEN DOMAIN translator = {}
            ELSE IsTableOf(translator, paths[Min(found)].languages)

\* the cell is the generation-metadata cell
IsMetadataCell(cell) ==
    /\ cell.cell_type = "markdown"
    /\ cell.source # <<>>
    /\ cell.source[1] = "Notebook created: "

\* the cell was made of a literal block of the document
IsBlockCell(cell) == \E tag \in cell.nodes : tag.kind = "literal_block"

\* the literal block a cell was made of
BlockOf(cell) == CHOOSE tag \in cell.nodes : tag.kind = "literal_block"

\* the cells before the first cell made of a literal block
FixedCells ==
    SubSeq(cells, 1, Min({i \in 1..Len(cells) : IsBlockCell(cells[i])}
                         \cup {Len(cells) + 1}) - 1)

\* in "code" mode the cells are the welcome cell when there is one, the metadata
\* cell when metadata is written, and then cells of literal blocks in the
\* order of the document
C16_CellsOfMinimalMode ==
    (conversion_mode = "code" /\ status \in {"constructed", "walking"}) =>
        /\ Len(FixedCells) <= 2
        /\ jupyter_write_metadata <=>
              (FixedCells # <<>> /\ IsMetadataCell(FixedCells[Len(FixedCells)]))
        /\ Len(FixedCells) = 2 =>
              (FixedCells[1].cell_type = "markdown" /\ ~IsMetadataCell(FixedCells[1]))
        /\ \A i \in (Len(FixedCells) + 1)..Len(cells) : IsBlockCell(cells[i])
        /\ \A i, j \in (Len(FixedCells) + 1)..Len(cells) :
              i < j => BlockOf(cells[i]).n < BlockOf(cells[j]).n

\* in "code" mode a literal block of kind CODE or MARKDOWN adds one cell, of
\* its kind, when it closes, and no other node adds, removes or moves a cell
\* or changes the lines of code
C16_StepOfMinimalMode ==
    (conversion_mode = "code" /\ status = "walking" /\ ~DepartsDocument) =>
        /\ IF DepartsBlock /\ output_cell_type \in {CODE, MARKDOWN}
           THEN /\ Len(cells') = Len(cells) + 1
                /\ Extends(cells', cells)
                /\ cells'[Len(cells')].cell_type =
                      (IF output_cell_type = CODE THEN "code" ELSE "markdown")
                /\ BlockOf(cells'[Len(cells')]).n = Top.n
           ELSE IF DepartsBlock
           THEN /\ Len(cells') = Len(cells)
                /\ \A i \in 1..Len(cells) : cells'[i].source = cells[i].source
           ELSE cells' = cells
        /\ code_lines' # code_lines =>
              \/ last'.op = "visit_literal_block"
              \/ last'.op = "visit_Text" /\ Top.kind = "literal_block"

(* C16: in "code" mode the cells before the exit of the document are the   *)
(* welcome cell (when there is one), the metadata cell (when metadata is   *)
(* written) and then one cell for every literal block that closed with the *)
(* kind CODE or MARKDOWN, in the order of the document; every other node   *)
(* (Text outside a literal block, title, paragraph, list, section, topic,  *)
(* highlightlang) leaves the cells and the lines of code as they are.      *)
C16_MinimalMode ==
    [](C16_CellsOfMinimalMode) /\ [][C16_StepOfMinimalMode]_vars

\* a welcome cell, the metadata cell and the cell of a code block, and then
\* the text of a paragraph that added nothing
C16_Witness ==
    /\ conversion_mode = "code"
    /\ status = "walking"
    /\ last.op = "visit_Text"
    /\ Top.kind = "paragraph"
    /\ Len(cells) = 3
    /\ ~IsBlockCell(cells[1])
    /\ IsMetadataCell(cells[2])
    /\ cells[3].cell_type = "code"
    /\ code_lines # <<>>

\* this step is depart_list_item in "all" mode, and it returns
DepartsItem ==
    /\ conversion_mode = "all"
    /\ CanDepart("list_item")
    /\ last'.op = "depart_list_item"
    /\ status' = "walking"

\* every line break of the text is followed by the indent
IndentedBreaks(text, indent) ==
    \A p \in 1..Len(text) :
        text[p] = NL =>
            /\ p + Len(indent) <= Len(text)
            /\ SubSeq(text, p + 1, p + Len(indent)) = indent

\* the last character of the buffer is a line break
EndsWithBreak(buffer) ==
    /\ buffer # <<>>
    /\ buffer[Len(buffer)].s # <<>>
    /\ buffer[Len(buffer)].s[Len(buffer[Len(buffer)].s)] = NL

DepartsReferenceInTopic ==
    /\ last'.op = "depart_reference"
    /\ Full
    /\ in_topic

\* the visible text the buffer collected since the node was entered: the
\* fragments of the nodes entered after it
CollectedSince(buffer, node) ==
    JoinFrags(SelectSeq(buffer, LAMBDA f : f.n > node.n))

\* slug is text with each of its whitespace characters replaced by a dash
IsSlugOf(slug, text) ==
    /\ Len(slug) = Len(text)
    /\ \A i \in 1..Len(text) :
          slug[i] = IF text[i] \in Whitespace THEN "-" ELSE text[i]

\* target is "](#", a slug that satisfies IsSlug, and ")"
IsAnchorLink(target, IsSlug(_)) ==
    /\ Len(target) >= 4
    /\ SubSeq(target, 1, 3) = <<"]", "(", "#">>
    /\ target[Len(target)] = ")"
    /\ IsSlug(SubSeq(target, 4, Len(target) - 1))

\* C19 as stated: for a reference inside a topic, the link target appended
\* at exit is "#" and the slug of the visible text collected since the
\* reference's entry, the slug being that text trimmed with every maximal run
\* of whitespace characters replaced by a single dash.
C19_RunsGiveOneDash ==
    [][DepartsReferenceInTopic =>
          LET text == StripStr(CollectedSince(markdown_lines, last'.node))
              IsSlug(slug) == slug = SlugCollapsed(text)
          IN  /\ Len(markdown_lines') = Len(markdown_lines) + 1
              /\ IsAnchorLink(markdown_lines'[Len(markdown_lines')].s, IsSlug)]_vars

\* C19: for a reference inside a topic, depart_reference appends one
\* fragment to the buffer, the link target "](#slug)", where slug is the
\* visible text collected since the reference's entry, trimmed, with each
\* whitespace character replaced by a dash: one whitespace character between
\* two words gives one dash and a run of two gives two dashes.  The fragments
\* already in the buffer are unchanged.
C19_TopicLinkTarget ==
    [][DepartsReferenceInTopic =>
          LET text == StripStr(CollectedSince(markdown_lines, last'.node))
              IsSlug(slug) == IsSlugOf(slug, text)
          IN  /\ Len(markdown_lines') = Len(markdown_lines) + 1
              /\ SubSeq(markdown_lines', 1, Len(markdown_lines)) = markdown_lines
              /\ IsAnchorLink(markdown_lines'[Len(markdown_lines')].s, IsSlug)]_vars

\* a reference of a topic whose text has two whitespace characters between
\* two words has been left: its target has two dashes
C19_Witness ==
    /\ last.op = "depart_reference"
    /\ Full
    /\ in_topic
    /\ markdown_lines # <<>>
    /\ markdown_lines[Len(markdown_lines)].s =
          <<"]", "(", "#", "a", "-", "-", "b", ")">>

\* a cell as nbformat writes it: without the nodes its text came from
Written(cell) ==
    [cell_type |-> cell.cell_type, source |-> cell.source,
     outputs |-> [i \in 1..Len(cell.outputs) |-> cell.outputs[i].text]]

WrittenCells(cs) == [i \in 1..Len(cs) |-> Written(cs[i])]

\* the executable code cells, each with its text and its output
CodeCells(cs) == SelectSeq(WrittenCells(cs), LAMBDA c : c.cell_type = "code")

\* both conversions of the document have ended without raising
BothDone ==
    /\ pure.pc = "second"
    /\ status = "done"
    /\ pure.first.status = "done"

\* C17: when the minimal and the full translator have both converted the
\* same document under the same configuration, the two outputs have the same
\* sequence of code cells (each with its text and its attached output, if
\* any), the same final language and the same kernel metadata.
C17_SameCodeCells ==
    (BothDone /\ pure.first.mode # conversion_mode) =>
        /\ CodeCells(cells) = CodeCells(pure.first.cells)
        /\ lang = pure.first.lang
        /\ kernelspec = pure.first.kernelspec

\* the second conversion of the document, under the mode of the first, has
\* ended
SameModeEnded ==
    /\ pure.pc = "second"
    /\ status \in {"done", "raised"}
    /\ pure.first.mode = conversion_mode

\* C20 as stated: two conversions of the same document under the same
\* configuration give identical output documents, the same cells in the
\* same order with the same text and outputs and the same kernel metadata,
\* also when metadata writing is enabled.
C20_IdenticalOutputs ==
    (SameModeEnded /\ BothDone) =>
        /\ WrittenCells(cells) = WrittenCells(pure.first.cells)
        /\ kernelspec = pure.first.kernelspec

\* the two cells are equal, or they are the metadata cells of the two
\* conversions, each with the time of its own conversion
SameButTime(cell, first) ==
    \/ Written(cell) = Written(first)
    \/ /\ jupyter_write_metadata
       /\ cell = new_markdown_cell(MetaText(pure.now), {})
       /\ first = new_markdown_cell(MetaText(pure.first.now), {})

C20_SameEnd ==
    SameModeEnded =>
        /\ status = pure.first.status
        /\ warnings = pure.first.warnings

C20_SameCells ==
    (SameModeEnded /\ BothDone) =>
        /\ lang = pure.first.lang
        /\ kernelspec = pure.first.kernelspec
        /\ Len(cells) = Len(pure.first.cells)
        /\ \A i \in 1..Len(cells) : SameButTime(cells[i], pure.first.cells[i])
        /\ (WrittenCells(cells) = WrittenCells(pure.first.cells))
              <=> (~jupyter_write_metadata \/ pure.now = pure.first.now)

\* C20: two conversions of the same document under the same configuration
\* end the same way (both return or both raise, after the same warnings),
\* and when they return their outputs have the same language and kernel
\* metadata and the same cells in the same order with the same text and
\* outputs, except that the metadata cell of each holds the time of its own
\* conversion: the outputs are identical exactly when metadata writing is
\* off or the two conversions ran at the same time.
C20_IdenticalButTime == C20_SameEnd /\ C20_SameCells

\* the full translator has converted a document with prose and code twice,
\* with metadata writing enabled, at two times
C20_Witness ==
    /\ SameModeEnded
    /\ BothDone
    /\ conversion_mode = "all"
    /\ jupyter_write_metadata
    /\ pure.now # pure.first.now
    /\ Len(cells) >= 3
    /\ WrittenCells(cells) # WrittenCells(pure.first.cells)

\* depart_reference of JupyterTranslator runs outside a topic
DepartsReferenceOutsideTopic ==
    /\ last'.op = "depart_reference"
    /\ Full
    /\ ~in_topic

HasDot(uri) == \E i \in 1..Len(uri) : uri[i] = "."
HasFragment(uri) == \E i \in 1..Len(uri) : uri[i] = "#"

\* the link target the reference is to get: the path, the extension, and
\* "#" with the fragment only when the uri has a fragment
InternalTarget(uri) ==
    LET parts == split_uri_id(uri)
    IN  parts[1] \o default_ext
        \o (IF HasFragment(uri) THEN <<"#">> \o parts[2] ELSE <<>>)

\* C21: for a reference outside a topic, depart_reference appends the
\* target "](uri)": for an internal reference whose uri has no extension the
\* uri is the path, the output extension, and "#" with the fragment only
\* when the uri had one ("page" gives "page.ipynb"); a uri with an
\* extension, and the uri of a reference that is not internal, is unchanged;
\* a reference with only a fragment id gets "#id"; with neither, an error
\* is reported and the target is empty.
C21_LinkTargetOutsideTopic ==
    [][DepartsReferenceOutsideTopic =>
          LET a == last'.node.attributes
              expected ==
                  IF a.refuri # NoneText
                  THEN IF a.internal /\ ~HasDot(a.refuri)
                       THEN InternalTarget(a.refuri)
                       ELSE a.refuri
                  ELSE IF a.refid # NoneText THEN <<"#">> \o a.refid
                  ELSE <<>>
              neither == a.refuri = NoneText /\ a.refid = NoneText
          IN  /\ Len(markdown_lines') = Len(markdown_lines) + 1
              /\ markdown_lines'[Len(markdown_lines')].s =
                    <<"]", "(">> \o expected \o <<")">>
              /\ warnings' = IF neither
                             THEN Append(warnings, "invalid_reference")
                             ELSE warnings]_vars

\* cs is old with cells added at its end, or old whose last cell, a code
\* cell without output, has received one output
GrownAtTail(cs, old) ==
    \/ Extends(cs, old)
    \/ /\ old # <<>>
       /\ Len(cs) = Len(old)
       /\ \A i \in 1..(Len(old) - 1) : cs[i] = old[i]
       /\ old[Len(old)].cell_type = "code"
       /\ old[Len(old)].outputs = <<>>
       /\ cs[Len(cs)].cell_type = "code"
       /\ cs[Len(cs)].source = old[Len(old)].source
       /\ Len(cs[Len(cs)].outputs) = 1

\* cs without the h cells that follow its first k cells
Without(cs, k, h) == SubSeq(cs, 1, k) \o SubSeq(cs, k + h + 1, Len(cs))

\* cs is old with cells added at its end and header cells of the
\* configuration inserted at one place
GrownByHeaders(cs, old) ==
    \E k \in 0..Len(cs), h \in 0..Len(cs) :
        /\ k + h <= Len(cs)
        /\ Extends(Without(cs, k, h), old)
        /\ \A i \in (k + 1)..(k + h) :
              /\ ~jupyter_headers.is_none
              /\ \E name \in DOMAIN jupyter_headers.cells :
                    \E j \in 1..Len(jupyter_headers.cells[name]) :
                        cs[i] = jupyter_headers.cells[name][j]

\* C22: from construction until document exit begins the cell list only
\* grows at its tail: a step of a handler other than depart_document keeps
\* every cell in its place with its text, kind and outputs, except that the
\* last cell, when it is a code cell without output, may receive its single
\* output.  depart_document keeps the cells in their order: the places of
\* the cells change only by the header cells it inserts.
C22_CellsAppendOnly ==
    [][IF last'.op = "depart_document"
       THEN GrownByHeaders(cells', cells)
       ELSE GrownAtTail(cells', cells)]_vars

\* a markdown cell of prose has been appended behind a code cell that holds
\* an output, and the traversal goes on
C22_Witness ==
    /\ status = "walking"
    /\ Len(cells) >= 2
    /\ cells[Len(cells) - 1].cell_type = "code"
    /\ Len(cells[Len(cells) - 1].outputs) = 1
    /\ cells[Len(cells)].cell_type = "markdown"
    /\ ~IsBlockCell(cells[Len(cells)])

\* how many nodes of this kind are open
Open(kind) == Cardinality({i \in 1..Len(stack) : stack[i].kind = kind})

\* visit_title of JupyterTranslator runs
VisitsTitle == last'.op = "visit_title" /\ Full

\* the heading marker of the title that was entered: the last fragment of
\* the buffer
Marker(buffer) == buffer[Len(buffer)].s

\* s is k times "#" and a space
IsMarkerOf(s, k) ==
    /\ Len(s) = k + 1
    /\ \A i \in 1..k : s[i] = "#"
    /\ s[k + 1] = SP

C23_SectionDepth == Full => section_level = Open("section")

\* at a title the pending markdown is flushed (when it is not blank it
\* becomes a markdown cell and leaves the buffer) and then the marker is
\* appended: "#" once for each open section, once more inside a topic
C23_MarkerAtTitle ==
    [][VisitsTitle =>
          LET pending == ~IsBlank(strip_blank_lines_in_end_of_block(
                                      JoinFrags(markdown_lines)))
              level == Open("section") + (IF Open("topic") > 0 THEN 1 ELSE 0)
          IN  /\ IF pending
                 THEN /\ Len(cells') = Len(cells) + 1
                      /\ Extends(cells', cells)
                      /\ cells'[Len(cells')].cell_type = "markdown"
                      /\ Len(markdown_lines') = 1
                 ELSE /\ cells' = cells
                      /\ Len(markdown_lines') = Len(markdown_lines) + 1
                      /\ SubSeq(markdown_lines', 1, Len(markdown_lines))
                            = markdown_lines
              /\ IsMarkerOf(Marker(markdown_lines'), level)]_vars

C23_AtLeastOneHash ==
    [][VisitsTitle => Marker(markdown_lines')[1] = "#"]_vars

\* C23 as stated: the section-depth counter equals the number of open
\* section nodes in every reachable state; at each title the heading marker
\* is "#" repeated that many times (one more inside a topic) and a space,
\* appended after the pending markdown has been flushed; a title always
\* gets at least one "#".
C23_TitleAlwaysHasHash ==
    /\ []C23_SectionDepth
    /\ C23_MarkerAtTitle
    /\ C23_AtLeastOneHash

\* C23: the section-depth counter equals the number of open section nodes
\* in every reachable state; at each title the pending markdown is flushed
\* and then the heading marker is appended, "#" once for each open section
\* and once more inside a topic, and a space.  The marker has at least one
\* "#" exactly when the title is inside a section or a topic: the title of
\* a node outside both (an admonition at the top of the document) gets the
\* marker without "#", a single space.
C23_TitleMarker ==
    /\ []C23_SectionDepth
    /\ C23_MarkerAtTitle
    /\ [][VisitsTitle =>
             (Marker(markdown_lines')[1] = "#"
                 <=> (Open("section") > 0 \/ Open("topic") > 0))]_vars

\* the title of a topic inside a section has been entered after prose: the
\* prose is a cell and the buffer holds the marker of two "#"
C23_Witness ==
    /\ last.op = "visit_title"
    /\ Full
    /\ Open("section") = 1
    /\ Open("topic") = 1
    /\ cells # <<>>
    /\ cells[Len(cells)].cell_type = "markdown"
    /\ markdown_lines # <<>>
    /\ Marker(markdown_lines) = <<"#", "#", SP>>

\* the language of the document at its k-th node: that of the last
\* highlightlang directive before it, or the default language
LanguageInForce(doc, k) ==
    LET directives == {i \in 1..(k - 1) : doc[i].kind = "highlightlang"}
    IN  IF directives = {} THEN default_lang
        ELSE StripStr(doc[Max(directives)].language)

\* the language of the literal block that is the k-th node of the document
LanguageOfBlock(doc, k) ==
    IF doc[k].language = NoneText THEN LanguageInForce(doc, k)
    ELSE StripStr(doc[k].language)

\* the place in the document of the literal block a code cell was made of
\* (an output block attached to the cell comes after it)
CodeBlockOf(cell) ==
    Min({tag.n : tag \in {t \in cell.nodes : t.kind = "literal_block"}})

\* C24: in the finalized output every executable code cell came from a
\* block whose translated language equals the translated final language of
\* the document, the language of the kernel in the metadata, wherever the
\* language directives stand before, between and after the code blocks.
C24_CodeCellsInKernelLanguage ==
    (pure.pc \in {"first", "second"} /\ status = "done") =>
        \A i \in 1..Len(cells) :
            (cells[i].cell_type = "code" /\ IsBlockCell(cells[i])) =>
                /\ kernelspec = lang
                /\ translate(translator,
                             LanguageOfBlock(pure.document, CodeBlockOf(cells[i])))
                      = translate(translator, lang)

\* C25: in "all" mode, between the handlers, the marker stack, the indent
\* stack and the list-level counter have the same depth, the number of open
\* list nodes; the stack of list-item starts has one entry for each open
\* list item, none greater than the number of fragments in the markdown
\* buffer; and at document exit the three stacks are empty, the list-level
\* and section-depth counters are 0 and in_code_block is false.
C25_ListStacks ==
    (Full /\ status \in {"walking", "done"}) =>
        /\ Len(bullets) = Open("bullet_list") + Open("enumerated_list")
        /\ Len(indents) = Len(bullets)
        /\ list_level = Len(bullets)
        /\ Len(list_item_starts) = Open("list_item")
        /\ \A i \in 1..Len(list_item_starts) :
              list_item_starts[i] <= Len(markdown_lines)
        /\ status = "done" =>
              /\ bullets = <<>>
              /\ indents = <<>>
              /\ list_item_starts = <<>>
              /\ list_level = 0
              /\ section_level = 0
              /\ ~in_code_block

\* the text of the n-th node, not blank, is in the markdown buffer
Buffered(n) ==
    \E i \in 1..Len(markdown_lines) :
        /\ markdown_lines[i].n = n
        /\ markdown_lines[i].kind = "Text"
        /\ ~IsBlank(markdown_lines[i].s)

\* the markdown cells that hold the text of the n-th node
CellsOfText(n) ==
    {i \in 1..Len(cells) :
        /\ cells[i].cell_type = "markdown"
        /\ [n |-> n, kind |-> "Text"] \in cells[i].nodes}

\* the text of the n-th node is in exactly one markdown cell
Committed(n) == Cardinality(CellsOfText(n)) = 1

\* no two cells hold text of the same node: the text of a literal block is
\* only in the cell (or the output) of the block, prose is in one cell
C26_NoTextTwice ==
    \A i, j \in 1..Len(cells) : i # j => cells[i].nodes \cap cells[j].nodes = {}

\* at document exit the buffer holds no text that is not blank
C26_BufferEmptyAtExit ==
    (Full /\ status = "done") => IsBlank(JoinFrags(markdown_lines))

\* C26: in "all" mode no prose is lost or duplicated: every text fragment
\* that is not blank and is appended to the markdown buffer is eventually
\* in exactly one markdown cell, at document exit the buffer holds no text
\* that is not blank, and the text of a literal block is only in the cell or
\* the output of that block.
C26_NoProseLost ==
    /\ \A n \in 1..MaxFairNodes : (Full /\ Buffered(n)) ~> Committed(n)
    /\ []C26_BufferEmptyAtExit
    /\ []C26_NoTextTwice

=============================================================================
